---- MODULE Spec2Model ----
(***************************************************************************)
(* Verification model of the daily-messenger acquisition pipeline.         *)
(*                                                                         *)
(* Part 1  Provider Resolver: _resolve_index_quote, _resolve_equity_quote  *)
(*         and _attempt_quote of etl/run_fetch.py   (specification         *)
(*         SpecResolver).                                                  *)
(* Part 2  Pipeline: run() of etl/run_fetch.py, run() of                   *)
(*         scoring/run_scores.py and record_step of common/run_meta.py     *)
(*         over a shared file system (specifications Spec, SpecAcquire).   *)
(*                                                                         *)
(* Part 3  Library functions, each under a specification of its own:      *)
(*         _request_json (SpecRequest), the fundamentals merge and the     *)
(*         derived ratios of _fetch_theme_metrics_from_fmp                 *)
(*         (SpecFundamentals), the sentiment history of                    *)
(*         scoring/run_scores.py (SpecHistory), aggregate of               *)
(*         scoring/adaptors/sentiment.py (SpecAggregate), the sentiment    *)
(*         part of successive scoring runs (SpecSentimentRun), the         *)
(*         degraded flag and the done marker across the steps of one       *)
(*         trading day (SpecDegraded).                                     *)
(* Part 4  Two invocations of run() of etl/run_fetch.py for one trading    *)
(*         day, side by side (SpecConcurrent).                             *)
(* Part 5  The values derived from one EDGAR fact (SpecFact).              *)
(* Part 6  The provider requests of the Hong Kong, theme and price-only    *)
(*         quote paths (SpecYahoo).                                        *)
(* Part 7  The EDGAR ticker mapping, the theme step and the EDGAR health   *)
(*         check (SpecEdgar).                                              *)
(* Part 8  The dm command line and the throttle switch (SpecCli).          *)
(*                                                                         *)
(* Text is modelled as a sequence of tokens, so that formatting and        *)
(* joining are computed, not assumed.  Every specification constrains all  *)
(* variables: the part it does not exercise stays at its initial value.    *)
(***************************************************************************)
EXTENDS Integers, Sequences, FiniteSets, TLC

VARIABLES
    \* ---- Part 1: resolver ----
    quoteOrder,     \* QUOTE_ORDER after split/strip/lower, <<>> when unset
    apiKeys,        \* names of the credentials present in api_keys
    disableYahoo,   \* DISABLE_YAHOO = "1"
    yfinanceFallback, \* YFINANCE_FALLBACK is truthy
    rq_kind,        \* "index" | "equity" | "none": which resolver was called
    rq_symbol,      \* the symbol being resolved
    fetchers,       \* the ordered list of labels handed to _attempt_quote
    aq_pc,          \* "idle" | "loop" | "returned" | "raised"
    aq_i,           \* position of the for loop in fetchers
    aq_errors,      \* errors: list of "label: exc" texts
    aq_result,      \* the snapshot _attempt_quote returned, or NoSnapshot
    aq_detail,      \* the text of the RuntimeError raised, or <<>>
    invoked,        \* history: labels whose thunk was called, in call order
    outcomes,       \* history: what each called thunk did, in call order
    \* ---- Part 2: pipeline ----
    fs,             \* the files of out/ and state/
    etl,            \* the locals of run() of etl/run_fetch.py
    sc,             \* the locals of run() of scoring/run_scores.py
    config,         \* what _load_configuration returns (Finnhub key, feeds)
    runs,           \* invocations started so far
    budget,         \* invocations and failing calls the environment may still cause
    \* ---- Part 3: library functions ----
    req,            \* the locals of one call of _request_json and its clock
    fund,           \* one symbol's pass through _fetch_theme_metrics_from_fmp
    hist,           \* state/sentiment_history.json and the history of a scoring run
    agg,            \* one call of aggregate of scoring/adaptors/sentiment.py
    sr,             \* the sentiment part of scoring runs: history, node, result
    dg,             \* the degraded flag on its way from ETL to scoring to digest
    cc,             \* two ETL invocations of one trading day running side by side
    ef,             \* the entries of one EDGAR fact and the values derived from them
    yh,             \* the provider requests of the Hong Kong, theme and price-only quote paths
    ed,             \* the EDGAR ticker mapping of the process and the theme step's outcome
    cl              \* the dm command line: the environment, the module constant and the sleeps of the ETL step

resolverVars == <<quoteOrder, apiKeys, disableYahoo, yfinanceFallback, rq_kind,
                  rq_symbol, fetchers, aq_pc, aq_i, aq_errors, aq_result,
                  aq_detail, invoked, outcomes>>

pipelineVars == <<fs, etl, sc, config, runs, budget>>

libraryVars == <<req, fund, hist, agg, sr, dg, cc, ef, yh, ed, cl>>

\* What an action on one library variable leaves alone.
otherThanReq  == <<resolverVars, pipelineVars, fund, hist, agg, sr, dg, cc,
                  ef, yh, ed, cl>>
otherThanFund == <<resolverVars, pipelineVars, req, hist, agg, sr, dg, cc,
                  ef, yh, ed, cl>>
otherThanHist == <<resolverVars, pipelineVars, req, fund, agg, sr, dg, cc,
                  ef, yh, ed, cl>>
otherThanAgg  == <<resolverVars, pipelineVars, req, fund, hist, sr, dg, cc,
                  ef, yh, ed, cl>>
otherThanSr   == <<resolverVars, pipelineVars, req, fund, hist, agg, dg, cc,
                  ef, yh, ed, cl>>
otherThanDg   == <<resolverVars, pipelineVars, req, fund, hist, agg, sr, cc,
                  ef, yh, ed, cl>>
otherThanCc   == <<resolverVars, pipelineVars, req, fund, hist, agg, sr, dg,
                  ef, yh, ed, cl>>
otherThanEf   == <<resolverVars, pipelineVars, req, fund, hist, agg, sr, dg,
                  cc, yh, ed, cl>>
otherThanYh   == <<resolverVars, pipelineVars, req, fund, hist, agg, sr, dg,
                  cc, ef, ed, cl>>
otherThanEd   == <<resolverVars, pipelineVars, req, fund, hist, agg, sr, dg,
                  cc, ef, yh, cl>>
otherThanCl   == <<resolverVars, pipelineVars, req, fund, hist, agg, sr, dg,
                  cc, ef, yh, ed>>

vars == <<resolverVars, pipelineVars, libraryVars>>

NoneVal == "None"

\* None where a _QuoteSnapshot is expected.
NoSnapshot == [none |-> TRUE]

\* ------------------------------------------------------------------------
\* Bounds of the model
\* ------------------------------------------------------------------------
\* Longest QUOTE_ORDER preference list that is enumerated.
MaxOrderLen == 2
\* Events the environment causes in one behaviour of Spec: an invocation of
\* the ETL step or of the scoring step, or an acquisition call that fails.
MaxEvents == 3
\* Invocations in one behaviour (every event may be an invocation).
MaxRuns == MaxEvents
\* Acquisition calls that fail in the one run of SpecAcquire.
MaxAcquireFailures == 3

\* ========================================================================
\* Initial values
\* ========================================================================

\* A path that does not exist, and a file cut short by a crash between
\* open("w") and the end of json.dump (it exists and does not parse).
Absent  == [state |-> "absent"]
Corrupt == [state |-> "corrupt"]

\* The two trading days of the model, and the marker content of a test.
Days == {"D1", "D2"}

\* out/ and state/ before the first invocation.
EmptyFs ==
    [market        |-> Absent,     \* out/raw_market.json
     events        |-> Absent,     \* out/raw_events.json
     status        |-> Absent,     \* out/etl_status.json
     fetch_markers |-> {},         \* days D with state/fetch_D
     meta_etl      |-> "none",     \* run_meta.json: steps.etl.status
     meta_scoring  |-> "none",     \* run_meta.json: steps.scoring.status
     scores        |-> Absent,     \* out/scores.json
     actions       |-> Absent,     \* out/actions.json
     history       |-> Absent,     \* state/sentiment_history.json
     done_markers  |-> [d \in Days |-> Absent]]   \* state/done_D

\* The locals of a run() of the ETL step that has not been entered.
EtlIdle ==
    [pc |-> "idle", force |-> FALSE, day |-> NoneVal, run |-> 0,
     overall_ok |-> TRUE, statuses |-> <<>>,
     prev_put_call |-> FALSE, prev_aaii |-> FALSE, prev_btc |-> FALSE,
     market |-> "none", market_failed |-> {}, hk |-> FALSE,
     put_call |-> "none", aaii |-> "none",
     spot |-> FALSE, funding |-> FALSE, basis |-> FALSE,
     etf_flow |-> "none", btc |-> "none", events |-> "none",
     calls |-> {}, writes |-> <<>>, outcome |-> "none", exit |-> -1,
     fs0 |-> EmptyFs]

\* The locals of a run() of the scoring step that has not been entered.
ScIdle ==
    [pc |-> "idle", force |-> FALSE, strict |-> FALSE, day |-> NoneVal,
     run |-> 0, degraded |-> FALSE, status_ok |-> "none",
     writes |-> <<>>, outcome |-> "none", exit |-> -1, fs0 |-> EmptyFs]

\* api_keys as far as run() branches on it ("key": a Finnhub key is there,
\* "no_key": other keys only, "no_keys": api_keys is empty), and whether
\* ai_feeds is non-empty.
Configs == [finnhub : {"key", "no_key", "no_keys"}, ai_feeds : BOOLEAN]

\* out/ and state/ after the pipeline completed for day D1 with every
\* source available (the files are those of "run 0").
PriorDayFs ==
    [market        |-> [state |-> "ok", day |-> "D1", run |-> 0,
                        put_call |-> TRUE, aaii |-> TRUE],
     events        |-> [state |-> "ok", day |-> "D1", run |-> 0],
     status        |-> [state |-> "ok", date |-> "D1", run |-> 0, ok |-> TRUE],
     fetch_markers |-> {"D1"},
     meta_etl      |-> "completed",
     meta_scoring  |-> "completed",
     scores        |-> [state |-> "ok", day |-> "D1", run |-> 0,
                        degraded |-> FALSE],
     actions       |-> [state |-> "ok", day |-> "D1", run |-> 0],
     history       |-> [state |-> "ok"],
     done_markers  |-> [d \in Days |->
                          IF d = "D1" THEN [state |-> "ok", content |-> "D1"]
                          ELSE Absent]]

PipelineIdle ==
    /\ fs = EmptyFs
    /\ etl = EtlIdle
    /\ sc = ScIdle
    /\ config = [finnhub |-> "no_keys", ai_feeds |-> TRUE]
    /\ runs = 0
    /\ budget = 0

ResolverIdle ==
    /\ quoteOrder = <<>>
    /\ apiKeys = {}
    /\ disableYahoo = FALSE
    /\ yfinanceFallback = FALSE
    /\ rq_kind = "none"
    /\ rq_symbol = NoneVal
    /\ fetchers = <<>>
    /\ aq_pc = "idle"
    /\ aq_i = 1
    /\ aq_errors = <<>>
    /\ aq_result = NoSnapshot
    /\ aq_detail = <<>>
    /\ invoked = <<>>
    /\ outcomes = <<>>

\* No sleep has been made in the call of _request_json.
NoSleep ==
    [kind |-> "none", seconds |-> 0, slept |-> 0, checked |-> FALSE,
     before |-> 0, status |-> 0, header |-> "none"]

\* _request_json has raised nothing.  The snippet of an error is the text
\* it quotes: where the text comes from and how many characters of it;
\* body_len is the length of resp.text of the response it was raised for.
NoError ==
    [kind |-> "none", status_code |-> 0, body_len |-> 0,
     snippet |-> [of |-> "none", len |-> 0]]

\* _request_json has not been called.  Times are whole ticks of half a
\* second; hard_deadline = 0 stands for None (both are falsy in the test
\* "policy.hard_deadline and ...").
ReqIdle ==
    [pc |-> "idle",
     retries |-> 0, backoff_start |-> 0, backoff_factor |-> 0, jitter |-> 0,
     status_forcelist |-> {}, max_sleep |-> 0, hard_deadline |-> 0,
     throttle_disabled |-> FALSE, after_each_sleep |-> 0,
     attempt |-> 0, delay |-> 0, elapsed |-> 0, request_time |-> 0,
     last |-> NoSleep, outcome |-> "none", error |-> NoError]

\* None where a float is expected.
NoFloat == -1

\* None where a ratio is expected.
NoRatio == [null |-> TRUE]

\* The fields of one symbol's fundamentals.
FundFields ==
    {"net_income_ttm", "revenue_ttm", "shares_diluted_latest", "equity_latest"}

\* No fundamentals have been fetched.
FundIdle ==
    [pc |-> "idle", has_key |-> FALSE, fmp_requested |-> FALSE,
     fmp_used |-> FALSE,
     edgar |-> [f \in FundFields |-> NoFloat],
     fmp |-> [f \in FundFields |-> NoFloat],
     fundamentals |-> [f \in FundFields |-> NoFloat],
     price |-> NoFloat, market_cap |-> NoFloat,
     quote_pe |-> NoRatio, quote_ps |-> NoRatio,
     computed_pe |-> NoRatio, computed_ps |-> NoRatio, computed_pb |-> NoRatio,
     pe |-> NoRatio, ps |-> NoRatio, pb |-> NoRatio]

\* The two series of the sentiment history.
HistoryKeys == {"put_call_equity", "aaii_bull_bear_spread"}

\* No scoring run has written the sentiment history.
HistIdle ==
    [pc |-> "idle", run |-> 0, missing_seen |-> FALSE,
     file |-> [k \in HistoryKeys |-> <<>>],
     history |-> [k \in HistoryKeys |-> <<>>],
     appended |-> [k \in HistoryKeys |-> <<>>]]

\* aggregate returned None.
NoResult == [none |-> TRUE]

\* aggregate has not been called.
AggIdle ==
    [pc |-> "idle", has_put_call |-> FALSE, has_aaii |-> FALSE,
     history |-> [k \in HistoryKeys |-> <<>>],
     components |-> <<>>, result |-> NoResult]

\* A sentiment node without entries.
EmptyNode ==
    [has_put_call |-> FALSE, put_call |-> NoFloat,
     has_aaii |-> FALSE, aaii |-> NoFloat]

\* No scoring run has scored the sentiment yet.
SrIdle ==
    [pc |-> "idle", run |-> 0, day |-> 0, rerun |-> FALSE, node |-> EmptyNode,
     file |-> [k \in HistoryKeys |-> <<>>],
     first |-> [k \in HistoryKeys |-> <<>>],
     loaded |-> [k \in HistoryKeys |-> <<>>],
     history |-> [k \in HistoryKeys |-> <<>>],
     components |-> <<>>, result |-> NoResult]

\* No step of the pipeline has run on the out/ directory.
DgIdle ==
    [steps |-> 0, last |-> "none", status |-> Absent, market |-> Absent,
     scores |-> Absent, actions |-> Absent, marker |-> Absent,
     force |-> FALSE, strict |-> FALSE, flag |-> FALSE,
     outcome |-> "none", exit |-> -1,
     meta_scoring |-> Absent, meta_digest |-> Absent]

\* The two invocations of the ETL step on one out/ directory.
Invocations == {1, 2}

\* Neither invocation has been started and out/ is empty.
CcIdle ==
    [proc   |-> [p \in Invocations |->
                   [pc |-> "idle", force |-> FALSE, outcome |-> "none"]],
     market |-> Absent, events |-> Absent, status |-> Absent,
     marker |-> FALSE]

\* No fact has been read.
EfIdle ==
    [pc |-> "idle", entries |-> <<>>, ttm |-> NoFloat,
     latest_quarter |-> NoFloat, latest_instant |-> NoFloat]

\* None of the quote paths outside the resolver has been entered.
YhIdle == [pc |-> "idle", path |-> "none", requests |-> <<>>, ok |-> FALSE]

\* _EDGAR_TICKER_CACHE is None, and neither the theme step nor the EDGAR
\* health check has run.
EdIdle ==
    [pc |-> "start", cache |-> [loaded |-> FALSE, tickers |-> {}],
     lookups |-> 0, requests |-> 0, source |-> "none", results |-> {},
     missing |-> {}, errors |-> {}, fundamentals |-> {},
     theme_ok |-> FALSE, edgar_ok |-> FALSE]

\* The dm process before daily_messenger.cli is imported, with
\* DM_DISABLE_THROTTLE not in the environment.
ClIdle ==
    [pc |-> "import", env |-> FALSE, THROTTLE_DISABLED |-> FALSE,
     command |-> "none", disable_throttle |-> FALSE, slept |-> <<>>]

LibraryIdle ==
    /\ dg = DgIdle
    /\ req = ReqIdle
    /\ fund = FundIdle
    /\ hist = HistIdle
    /\ agg = AggIdle
    /\ sr = SrIdle
    /\ cc = CcIdle
    /\ ef = EfIdle
    /\ yh = YhIdle
    /\ ed = EdIdle
    /\ cl = ClIdle

\* ========================================================================
\* Part 1: Provider Resolver
\* ========================================================================

\* Provider names a QUOTE_ORDER entry can carry; "bogus" stands for any
\* entry that names no provider.
OrderNames == {"stooq", "financial_modeling_prep", "twelve_data",
               "alpaca", "alpha_vantage", "yahoo", "bogus"}

CredentialNames == {"financial_modeling_prep", "twelve_data", "alpha_vantage",
                    "alpaca_key_id", "alpaca_secret"}

IndexSymbols  == {"SPY", "QQQ"}
EquitySymbols == {"BOTZ", "XLP"}

\* Error texts a failing thunk may raise, and closes a succeeding one returns.
ErrTexts == {<<"timeout">>, <<"no data">>}
Closes   == {100, 101}

DefaultIndexOrder  == <<"stooq", "financial_modeling_prep", "twelve_data",
                        "alpha_vantage">>
DefaultEquityOrder == <<"financial_modeling_prep", "twelve_data", "stooq",
                        "alpaca", "alpha_vantage">>

_yahoo_allowed == IF disableYahoo THEN FALSE ELSE yfinanceFallback

Lower(symbol) ==
    CASE symbol = "SPY"  -> "spy"
      [] symbol = "QQQ"  -> "qqq"
      [] symbol = "BOTZ" -> "botz"
      [] symbol = "XLP"  -> "xlp"
      [] OTHER           -> symbol

\* _stooq_symbol_candidates: the lower-cased symbol, then symbol.us (none of
\* the resolver's symbols holds a "." or starts with "^").
_stooq_symbol_candidates(symbol) == <<<<Lower(symbol)>>, <<Lower(symbol), ".us">>>>

\* An adapter that reports another provider's name (a copied constant).
QuoteSourceCopied(label, variant) ==
    CASE label = "stooq"         -> <<"stooq", ":">> \o variant
      [] label = "yahoo"         -> <<"yahoo", ":">> \o variant
      [] OTHER                   -> <<"fmp">>

\* The source field each provider adapter writes into its _QuoteSnapshot.
QuoteSource(label, variant) ==
    CASE label = "stooq"         -> <<"stooq", ":">> \o variant
      [] label = "yahoo"         -> <<"yahoo", ":">> \o variant
      [] label = "fmp"           -> <<"fmp">>
      [] label = "twelve_data"   -> <<"twelve_data">>
      [] label = "alpaca"        -> <<"alpaca">>
      [] label = "alpha_vantage" -> <<"alpha_vantage">>

\* The variants under which a provider adapter can succeed for a symbol.
Variants(label, symbol) ==
    CASE label = "stooq" -> {_stooq_symbol_candidates(symbol)[i] : i \in 1..2}
      [] label = "yahoo" -> {<<symbol>>}
      [] OTHER           -> {<<>>}

\* Everything one call of a thunk can do: return a snapshot or raise.
ThunkOutcomes(label, symbol) ==
    {[ok |-> TRUE, label |-> label, err |-> <<>>,
      value |-> [day |-> "2024-04-05", close |-> c, change_pct |-> 1,
                 source |-> QuoteSource(label, v)]] :
        c \in Closes, v \in Variants(label, symbol)}
    \cup
    {[ok |-> FALSE, label |-> label, err |-> e, value |-> NoSnapshot] :
        e \in ErrTexts}

\* The "label: exc" entry appended for a failed thunk.
ErrorEntry(label, exc) == <<label, ": ">> \o exc

\* A join that keeps only the last failure.
JoinErrorsLast(errors) ==
    IF errors = <<>> THEN <<>> ELSE errors[Len(errors)]

\* "; ".join(errors)
RECURSIVE JoinErrors(_)
JoinErrors(errors) ==
    IF errors = <<>> THEN <<>>
    ELSE IF Len(errors) = 1 THEN errors[1]
    ELSE errors[1] \o <<"; ">> \o JoinErrors(Tail(errors))

\* The loop of _resolve_index_quote over wished: one (label) per recognised,
\* credentialed, not yet added name, in the order of wished.
RECURSIVE IndexFetchers(_, _)
IndexFetchers(wished, added) ==
    IF wished = <<>> THEN <<>>
    ELSE LET name == Head(wished) IN
        IF name = "stooq" /\ "stooq" \notin added
        THEN <<"stooq">> \o IndexFetchers(Tail(wished), added \cup {"stooq"})
        ELSE IF name = "financial_modeling_prep"
                /\ "financial_modeling_prep" \in apiKeys /\ "fmp" \notin added
        THEN <<"fmp">> \o IndexFetchers(Tail(wished), added \cup {"fmp"})
        ELSE IF name = "twelve_data" /\ "twelve_data" \in apiKeys
                /\ "twelve_data" \notin added
        THEN <<"twelve_data">>
             \o IndexFetchers(Tail(wished), added \cup {"twelve_data"})
        ELSE IF name = "alpha_vantage" /\ "alpha_vantage" \in apiKeys
                /\ "alpha_vantage" \notin added
        THEN <<"alpha_vantage">>
             \o IndexFetchers(Tail(wished), added \cup {"alpha_vantage"})
        ELSE IndexFetchers(Tail(wished), added)

\* An equity chain that keeps the default order whatever the list says.
EquityFetchersDefaultOrder(wished, added) ==
    SelectSeq(<<"fmp", "twelve_data", "stooq">>,
              LAMBDA label :
                  \/ label = "stooq"
                  \/ label = "fmp" /\ "financial_modeling_prep" \in apiKeys
                  \/ label = "twelve_data" /\ "twelve_data" \in apiKeys)

RECURSIVE EquityFetchers(_, _)
EquityFetchers(wished, added) ==
    IF wished = <<>> THEN <<>>
    ELSE LET name == Head(wished) IN
        IF name = "financial_modeling_prep"
           /\ "financial_modeling_prep" \in apiKeys /\ "fmp" \notin added
        THEN <<"fmp">> \o EquityFetchers(Tail(wished), added \cup {"fmp"})
        ELSE IF name = "twelve_data" /\ "twelve_data" \in apiKeys
                /\ "twelve_data" \notin added
        THEN <<"twelve_data">>
             \o EquityFetchers(Tail(wished), added \cup {"twelve_data"})
        ELSE IF name = "stooq" /\ "stooq" \notin added
        THEN <<"stooq">> \o EquityFetchers(Tail(wished), added \cup {"stooq"})
        ELSE IF name = "alpaca" /\ "alpaca_key_id" \in apiKeys
                /\ "alpaca_secret" \in apiKeys /\ "alpaca" \notin added
        THEN <<"alpaca">> \o EquityFetchers(Tail(wished), added \cup {"alpaca"})
        ELSE IF name = "alpha_vantage" /\ "alpha_vantage" \in apiKeys
                /\ "alpha_vantage" \notin added
        THEN <<"alpha_vantage">>
             \o EquityFetchers(Tail(wished), added \cup {"alpha_vantage"})
        ELSE EquityFetchers(Tail(wished), added)

YahooTail == IF _yahoo_allowed THEN <<"yahoo">> ELSE <<>>

\* _resolve_index_quote up to its call of _attempt_quote.
_resolve_index_quote ==
    /\ aq_pc = "idle"
    /\ \E symbol \in IndexSymbols :
        /\ rq_kind' = "index"
        /\ rq_symbol' = symbol
        /\ fetchers' =
             IndexFetchers(IF quoteOrder # <<>> THEN quoteOrder
                           ELSE DefaultIndexOrder, {}) \o YahooTail
    /\ aq_pc' = "loop"
    /\ aq_i' = 1
    /\ aq_errors' = <<>>
    /\ UNCHANGED <<quoteOrder, apiKeys, disableYahoo, yfinanceFallback,
                   aq_result, aq_detail, invoked, outcomes>>
    /\ UNCHANGED <<pipelineVars, libraryVars>>

\* _resolve_equity_quote up to its call of _attempt_quote.
_resolve_equity_quote ==
    /\ aq_pc = "idle"
    /\ \E symbol \in EquitySymbols :
        /\ rq_kind' = "equity"
        /\ rq_symbol' = symbol
        /\ fetchers' =
             EquityFetchers(IF quoteOrder # <<>> THEN quoteOrder
                            ELSE DefaultEquityOrder, {}) \o YahooTail
    /\ aq_pc' = "loop"
    /\ aq_i' = 1
    /\ aq_errors' = <<>>
    /\ UNCHANGED <<quoteOrder, apiKeys, disableYahoo, yfinanceFallback,
                   aq_result, aq_detail, invoked, outcomes>>
    /\ UNCHANGED <<pipelineVars, libraryVars>>

\* A loop that does not stop at the first thunk that returns.
AttemptQuoteStepNoStop ==
    /\ aq_pc = "loop"
    /\ aq_i <= Len(fetchers)
    /\ \E out \in ThunkOutcomes(fetchers[aq_i], rq_symbol) :
        /\ invoked' = Append(invoked, fetchers[aq_i])
        /\ outcomes' = Append(outcomes, out)
        /\ IF out.ok
           THEN /\ aq_result' = out.value
                /\ aq_pc' = IF aq_i = Len(fetchers) THEN "returned" ELSE "loop"
                /\ aq_i' = aq_i + 1
                /\ UNCHANGED aq_errors
           ELSE /\ aq_errors' = Append(aq_errors, ErrorEntry(fetchers[aq_i], out.err))
                /\ aq_i' = aq_i + 1
                /\ UNCHANGED <<aq_result, aq_pc>>
    /\ UNCHANGED <<quoteOrder, apiKeys, disableYahoo, yfinanceFallback,
                   rq_kind, rq_symbol, fetchers, aq_detail>>
    /\ UNCHANGED <<pipelineVars, libraryVars>>

\* One iteration of the for loop of _attempt_quote: call the thunk; return
\* what it returns, or record "label: exc" and go on.
AttemptQuoteStep ==
    /\ aq_pc = "loop"
    /\ aq_i <= Len(fetchers)
    /\ \E out \in ThunkOutcomes(fetchers[aq_i], rq_symbol) :
        /\ invoked' = Append(invoked, fetchers[aq_i])
        /\ outcomes' = Append(outcomes, out)
        /\ IF out.ok
           THEN /\ aq_result' = out.value
                /\ aq_pc' = "returned"
                /\ UNCHANGED <<aq_errors, aq_i>>
           ELSE /\ aq_errors' = Append(aq_errors, ErrorEntry(fetchers[aq_i], out.err))
                /\ aq_i' = aq_i + 1
                /\ UNCHANGED <<aq_result, aq_pc>>
    /\ UNCHANGED <<quoteOrder, apiKeys, disableYahoo, yfinanceFallback,
                   rq_kind, rq_symbol, fetchers, aq_detail>>
    /\ UNCHANGED <<pipelineVars, libraryVars>>

\* The loop ran off the list: raise RuntimeError(detail).
AttemptQuoteRaise ==
    /\ aq_pc = "loop"
    /\ aq_i > Len(fetchers)
    /\ aq_detail' = IF aq_errors # <<>> THEN JoinErrors(aq_errors)
                    ELSE <<"no quote source available">>
    /\ aq_pc' = "raised"
    /\ UNCHANGED <<quoteOrder, apiKeys, disableYahoo, yfinanceFallback,
                   rq_kind, rq_symbol, fetchers, aq_i, aq_errors, aq_result,
                   invoked, outcomes>>
    /\ UNCHANGED <<pipelineVars, libraryVars>>

\* All preference lists of length at most MaxOrderLen.
Orders == UNION {[1..n -> OrderNames] : n \in 0..MaxOrderLen}

InitResolver ==
    /\ PipelineIdle
    /\ LibraryIdle
    /\ quoteOrder \in Orders
    /\ apiKeys \in SUBSET CredentialNames
    /\ disableYahoo \in BOOLEAN
    /\ yfinanceFallback \in BOOLEAN
    /\ rq_kind = "none"
    /\ rq_symbol = NoneVal
    /\ fetchers = <<>>
    /\ aq_pc = "idle"
    /\ aq_i = 1
    /\ aq_errors = <<>>
    /\ aq_result = NoSnapshot
    /\ aq_detail = <<>>
    /\ invoked = <<>>
    /\ outcomes = <<>>

NextResolver ==
    \/ _resolve_index_quote
    \/ _resolve_equity_quote
    \/ AttemptQuoteStep
    \/ AttemptQuoteRaise

SpecResolver == InitResolver /\ [][NextResolver]_vars

\* ------------------------------------------------------------------------
\* Claims about the Provider Resolver (checked under SpecResolver)
\* ------------------------------------------------------------------------

\* C1: thunks are invoked strictly in list order and invocation stops at the
\* first thunk that returns: the invoked labels are a prefix of the list, no
\* thunk is called after one returned, and the snapshot handed back is the
\* value of that one thunk.
C1_FirstSuccessWins ==
    /\ Len(invoked) <= Len(fetchers)
    /\ invoked = SubSeq(fetchers, 1, Len(invoked))
    /\ \A j \in 1..Len(outcomes) : outcomes[j].ok => j = Len(outcomes)
    /\ aq_pc = "returned" =>
          /\ outcomes # <<>>
          /\ outcomes[Len(outcomes)].ok
          /\ aq_result = outcomes[Len(outcomes)].value
    /\ aq_pc # "returned" => aq_result = NoSnapshot

\* C1 witness: provider k > 1 succeeded while providers after it exist.
C1_Witness ==
    /\ aq_pc = "returned"
    /\ Len(invoked) >= 2
    /\ Len(invoked) < Len(fetchers)

\* C2 (as claimed): the returned snapshot's source equals the label of the
\* provider whose thunk succeeded.
C2_SourceEqualsLabel ==
    aq_pc = "returned" => aq_result.source = <<fetchers[aq_i]>>

\* C2 (amended): the returned snapshot's source names the provider whose thunk
\* succeeded: it is the label itself for fmp, twelve_data, alpaca and
\* alpha_vantage, and the label followed by ":" and the symbol variant that
\* was requested for stooq and yahoo.
C2_SourceNamesProvider ==
    aq_pc = "returned" =>
        LET label == fetchers[aq_i]
            src   == aq_result.source
        IN  /\ Head(src) = label
            /\ label \in {"stooq", "yahoo"} =>
                  /\ Len(src) >= 3
                  /\ src[2] = ":"
                  /\ SubSeq(src, 3, Len(src)) \in Variants(label, rq_symbol)
            /\ label \notin {"stooq", "yahoo"} => src = <<label>>

\* C2 witness: a chain resolved by a provider that is not the first of its
\* list and that carries a variant.
C2_Witness ==
    /\ aq_pc = "returned"
    /\ aq_i >= 2
    /\ fetchers[aq_i] = "stooq"
    /\ aq_result.source = <<"stooq", ":", Lower(rq_symbol), ".us">>

\* C3: if every provider of a non-empty list fails, the error text is, for
\* each provider in list order, its label, ": " and its error text, the
\* entries joined by "; "; none is omitted.  (Every error text of the model
\* is one token, so entry i fills positions 4i-3 .. 4i-1.)
C3_AllFailuresReported ==
    (aq_pc = "raised" /\ fetchers # <<>>) =>
        /\ Len(outcomes) = Len(fetchers)
        /\ Len(aq_detail) = 4 * Len(fetchers) - 1
        /\ \A i \in 1..Len(fetchers) :
              /\ aq_detail[4 * i - 3] = fetchers[i]
              /\ aq_detail[4 * i - 2] = ": "
              /\ aq_detail[4 * i - 1] = outcomes[i].err[1]
        /\ \A i \in 1..(Len(fetchers) - 1) : aq_detail[4 * i] = "; "

\* C3 witness: three or more providers failed, with differing error texts.
C3_Witness ==
    /\ aq_pc = "raised"
    /\ Len(fetchers) >= 3
    /\ outcomes[1].err # outcomes[2].err

\* ========================================================================
\* Part 2: Pipeline.  run() of etl/run_fetch.py
\* ========================================================================

Status(name, ok) == [name |-> name, ok |-> ok]

\* The logical quantities of _fetch_market_snapshot_real.
IndexLabels  == {"SPX", "NDX"}
SectorLabels == {"AI", "Defensive"}

\* Outcomes open to one acquisition call: it can fail only while the
\* environment's events are not used up.
CallOutcomes == IF budget > 0 THEN {TRUE, FALSE} ELSE {TRUE}

Exists(file) == file.state # "absent"

\* A skip decision that does not compare the recorded date.
SkipRunNoDate(day) ==
    /\ day \in fs.fetch_markers
    /\ Exists(fs.market) /\ Exists(fs.events) /\ Exists(fs.status)
    /\ fs.status.state = "ok"

\* A skip decision that never skips.
SkipRunNever(day) == FALSE

\* skip_run of run(): the marker exists, the three artifacts exist, and
\* etl_status.json parses and records the trading day.
SkipRun(day) ==
    /\ day \in fs.fetch_markers
    /\ Exists(fs.market) /\ Exists(fs.events) /\ Exists(fs.status)
    /\ fs.status.state = "ok"
    /\ fs.status.date = day

\* run() up to record_step(..., "started"): parse --force, compute the
\* trading day, record the step.
EtlInvoke ==
    /\ etl.pc = "idle" /\ sc.pc = "idle"
    /\ runs < MaxRuns /\ budget > 0
    /\ \E force \in BOOLEAN, day \in Days :
        etl' = [EtlIdle EXCEPT !.pc = "check", !.force = force, !.day = day,
                               !.run = runs + 1, !.fs0 = fs,
                               !.writes = <<"run_meta">>]
    /\ runs' = runs + 1
    /\ fs' = [fs EXCEPT !.meta_etl = "started"]
    /\ budget' = budget - 1
    /\ UNCHANGED <<sc, config>>
    /\ UNCHANGED <<resolverVars, libraryVars>>

\* A skip that does not look at --force.
EtlSkipCachedIgnoringForce ==
    /\ etl.pc = "check"
    /\ SkipRun(etl.day)
    /\ fs' = [fs EXCEPT !.meta_etl = "cached"]
    /\ etl' = [etl EXCEPT !.pc = "done", !.outcome = "cached-skip", !.exit = 0,
                          !.writes = Append(@, "run_meta")]
    /\ UNCHANGED <<sc, config, runs, budget>>
    /\ UNCHANGED <<resolverVars, libraryVars>>

\* if not args.force: ... if skip_run: record "cached", return 0.
EtlSkipCached ==
    /\ etl.pc = "check"
    /\ ~etl.force
    /\ SkipRun(etl.day)
    /\ fs' = [fs EXCEPT !.meta_etl = "cached"]
    /\ etl' = [etl EXCEPT !.pc = "done", !.outcome = "cached-skip", !.exit = 0,
                          !.writes = Append(@, "run_meta")]
    /\ UNCHANGED <<sc, config, runs, budget>>
    /\ UNCHANGED <<resolverVars, libraryVars>>

\* No skip: load the configuration and the previous raw_market.json
\* (previous_sentiment, previous_btc; an unparsable file counts as {}).
EtlLoadPrevious ==
    /\ etl.pc = "check"
    /\ etl.force \/ ~SkipRun(etl.day)
    /\ etl' = [etl EXCEPT !.pc = "market",
                 !.prev_put_call = (fs.market.state = "ok" /\ fs.market.put_call),
                 !.prev_aaii = (fs.market.state = "ok" /\ fs.market.aaii),
                 !.prev_btc = (fs.market.state = "ok")]
    /\ UNCHANGED <<fs, sc, config, runs, budget>>
    /\ UNCHANGED <<resolverVars, libraryVars>>

\* _fetch_market_snapshot_real and its fallback: each of the four quotes
\* resolves or fails through its chain; the status is ok when an index
\* resolved; when it is not, the simulated snapshot replaces the market.
AcquireMarket ==
    /\ etl.pc = "market"
    /\ \E failed \in SUBSET (IndexLabels \cup SectorLabels) :
        /\ Cardinality(failed) <= budget
        /\ budget' = budget - Cardinality(failed)
        /\ IF IndexLabels \subseteq failed
           THEN etl' = [etl EXCEPT !.pc = "hk", !.market_failed = failed,
                          !.calls = @ \cup {"market"},
                          !.overall_ok = FALSE, !.market = "simulated",
                          !.statuses = @ \o <<Status("market", FALSE),
                                               Status("market", TRUE)>>]
           ELSE etl' = [etl EXCEPT !.pc = "hk", !.market_failed = failed,
                          !.calls = @ \cup {"market"},
                          !.market = "real",
                          !.statuses = Append(@, Status("market", TRUE))]
    /\ UNCHANGED <<fs, sc, config, runs>>
    /\ UNCHANGED <<resolverVars, libraryVars>>

\* An HK step that forgets to clear overall_ok.
AcquireHKKeepsOk ==
    /\ etl.pc = "hk"
    /\ \E ok \in CallOutcomes :
        /\ budget' = IF ok THEN budget ELSE budget - 1
        /\ etl' = [etl EXCEPT !.pc = "theme", !.calls = @ \cup {"hk"},
                     !.hk = ok,
                     !.statuses = Append(@, Status("hongkong_HSI", ok))]
    /\ UNCHANGED <<fs, sc, config, runs>>
    /\ UNCHANGED <<resolverVars, libraryVars>>

\* _fetch_hk_market_snapshot.
AcquireHK ==
    /\ etl.pc = "hk"
    /\ \E ok \in CallOutcomes :
        /\ budget' = IF ok THEN budget ELSE budget - 1
        /\ etl' = [etl EXCEPT !.pc = "theme", !.calls = @ \cup {"hk"},
                     !.hk = ok,
                     !.overall_ok = IF ok THEN @ ELSE FALSE,
                     !.statuses = Append(@, Status("hongkong_HSI", ok))]
    /\ UNCHANGED <<fs, sc, config, runs>>
    /\ UNCHANGED <<resolverVars, libraryVars>>

\* _fetch_theme_metrics_from_fmp.
AcquireThemes ==
    /\ etl.pc = "theme"
    /\ \E ok \in CallOutcomes :
        /\ budget' = IF ok THEN budget ELSE budget - 1
        /\ etl' = [etl EXCEPT !.pc = "edgar", !.calls = @ \cup {"theme"},
                     !.overall_ok = IF ok THEN @ ELSE FALSE,
                     !.statuses = Append(@, Status("fmp_theme", ok))]
    /\ UNCHANGED <<fs, sc, config, runs>>
    /\ UNCHANGED <<resolverVars, libraryVars>>

\* _edgar_healthcheck.
EdgarHealthcheck ==
    /\ etl.pc = "edgar"
    /\ \E ok \in CallOutcomes :
        /\ budget' = IF ok THEN budget ELSE budget - 1
        /\ etl' = [etl EXCEPT !.pc = "put_call", !.calls = @ \cup {"edgar"},
                     !.overall_ok = IF ok THEN @ ELSE FALSE,
                     !.statuses = Append(@, Status("edgar", ok))]
    /\ UNCHANGED <<fs, sc, config, runs>>
    /\ UNCHANGED <<resolverVars, libraryVars>>

\* cboe_putcall.fetch and the reuse of the previous reading.
AcquirePutCall ==
    /\ etl.pc = "put_call"
    /\ \E ok \in CallOutcomes :
        /\ budget' = IF ok THEN budget ELSE budget - 1
        /\ etl' = [etl EXCEPT !.pc = "aaii", !.calls = @ \cup {"put_call"},
                     !.overall_ok = IF ok THEN @ ELSE FALSE,
                     !.put_call = IF ok THEN "fresh"
                                  ELSE IF etl.prev_put_call THEN "stale"
                                  ELSE "none",
                     !.statuses =
                        IF ok THEN Append(@, Status("cboe_put_call", TRUE))
                        ELSE IF etl.prev_put_call
                        THEN @ \o <<Status("cboe_put_call", FALSE),
                                    Status("cboe_put_call_fallback", TRUE)>>
                        ELSE Append(@, Status("cboe_put_call", FALSE))]
    /\ UNCHANGED <<fs, sc, config, runs>>
    /\ UNCHANGED <<resolverVars, libraryVars>>

\* aaii_sentiment.fetch and the reuse of the previous reading.
AcquireAAII ==
    /\ etl.pc = "aaii"
    /\ \E ok \in CallOutcomes :
        /\ budget' = IF ok THEN budget ELSE budget - 1
        /\ etl' = [etl EXCEPT !.pc = "spot", !.calls = @ \cup {"aaii"},
                     !.overall_ok = IF ok THEN @ ELSE FALSE,
                     !.aaii = IF ok THEN "fresh"
                              ELSE IF etl.prev_aaii THEN "stale"
                              ELSE "none",
                     !.statuses =
                        IF ok THEN Append(@, Status("aaii_sentiment", TRUE))
                        ELSE IF etl.prev_aaii
                        THEN @ \o <<Status("aaii_sentiment", FALSE),
                                    Status("aaii_sentiment_fallback", TRUE)>>
                        ELSE Append(@, Status("aaii_sentiment", FALSE))]
    /\ UNCHANGED <<fs, sc, config, runs>>
    /\ UNCHANGED <<resolverVars, libraryVars>>

\* _fetch_coinbase_spot.
AcquireSpot ==
    /\ etl.pc = "spot"
    /\ \E ok \in CallOutcomes :
        /\ budget' = IF ok THEN budget ELSE budget - 1
        /\ etl' = [etl EXCEPT !.pc = "funding", !.calls = @ \cup {"spot"},
                     !.spot = ok,
                     !.statuses = Append(@, Status("coinbase_spot", ok))]
    /\ UNCHANGED <<fs, sc, config, runs>>
    /\ UNCHANGED <<resolverVars, libraryVars>>

\* _fetch_okx_funding.
AcquireFunding ==
    /\ etl.pc = "funding"
    /\ \E ok \in CallOutcomes :
        /\ budget' = IF ok THEN budget ELSE budget - 1
        /\ etl' = [etl EXCEPT !.pc = "basis", !.calls = @ \cup {"funding"},
                     !.funding = ok,
                     !.statuses = Append(@, Status("okx_funding", ok))]
    /\ UNCHANGED <<fs, sc, config, runs>>
    /\ UNCHANGED <<resolverVars, libraryVars>>

\* _fetch_okx_basis, called only with a spot price; without one the failed
\* okx_basis status is appended with no request.
AcquireBasis ==
    /\ etl.pc = "basis"
    /\ IF etl.spot
       THEN \E ok \in CallOutcomes :
              /\ budget' = IF ok THEN budget ELSE budget - 1
              /\ etl' = [etl EXCEPT !.pc = "flow", !.calls = @ \cup {"basis"},
                           !.basis = ok,
                           !.statuses = Append(@, Status("okx_basis", ok))]
       ELSE /\ etl' = [etl EXCEPT !.pc = "flow",
                         !.statuses = Append(@, Status("okx_basis", FALSE))]
            /\ UNCHANGED budget
    /\ UNCHANGED <<fs, sc, config, runs>>
    /\ UNCHANGED <<resolverVars, libraryVars>>

\* _fetch_btc_etf_flow and the reuse of the previous net inflow.
AcquireEtfFlow ==
    /\ etl.pc = "flow"
    /\ \E ok \in CallOutcomes :
        /\ budget' = IF ok THEN budget ELSE budget - 1
        /\ etl' = [etl EXCEPT !.pc = "btc", !.calls = @ \cup {"flow"},
                     !.etf_flow = IF ok THEN "fresh"
                                  ELSE IF etl.prev_btc THEN "stale"
                                  ELSE "none",
                     !.overall_ok = IF ~ok /\ etl.prev_btc THEN FALSE ELSE @,
                     !.statuses =
                        IF ok THEN Append(@, Status("btc_etf_flow", TRUE))
                        ELSE IF etl.prev_btc
                        THEN @ \o <<Status("btc_etf_flow", FALSE),
                                    Status("btc_etf_flow_fallback", TRUE)>>
                        ELSE Append(@, Status("btc_etf_flow", FALSE))]
    /\ UNCHANGED <<fs, sc, config, runs>>
    /\ UNCHANGED <<resolverVars, libraryVars>>

\* btc_data: built from the four readings when all are there, simulated
\* otherwise.
BuildBtc ==
    /\ etl.pc = "btc"
    /\ IF etl.spot /\ etl.funding /\ etl.basis /\ etl.etf_flow # "none"
       THEN etl' = [etl EXCEPT !.pc = "events", !.btc = "real",
                      !.statuses = Append(@, Status("btc", TRUE))]
       ELSE etl' = [etl EXCEPT !.pc = "events", !.btc = "simulated",
                      !.overall_ok = FALSE,
                      !.statuses = Append(@, Status("btc", TRUE))]
    /\ UNCHANGED <<fs, sc, config, runs, budget>>
    /\ UNCHANGED <<resolverVars, libraryVars>>

\* What the Finnhub branch does once the calendar succeeded: with a key the
\* request succeeds or fails; without one the failed status is appended
\* with no request, unless api_keys is empty.
FinnhubOutcomes ==
    IF config.finnhub = "key"
    THEN {"ok"} \cup (IF budget > 0 THEN {"failed"} ELSE {})
    ELSE {config.finnhub}

\* _fetch_events_real, its simulated fallback, and _fetch_finnhub_earnings.
AcquireEvents ==
    /\ etl.pc = "events"
    /\ \/ /\ budget > 0
          /\ budget' = budget - 1
          /\ etl' = [etl EXCEPT !.pc = "rss", !.calls = @ \cup {"events"},
                       !.events = "simulated",
                       !.statuses = @ \o <<Status("events", FALSE),
                                           Status("events", TRUE)>>]
       \/ \E fh \in FinnhubOutcomes :
          /\ budget' = IF fh = "failed" THEN budget - 1 ELSE budget
          /\ etl' = [etl EXCEPT !.pc = "rss",
                       !.calls = @ \cup {"events"}
                                   \cup (IF fh \in {"ok", "failed"}
                                         THEN {"finnhub"} ELSE {}),
                       !.events = "real",
                       !.statuses =
                          IF fh = "no_keys"
                          THEN Append(@, Status("events", TRUE))
                          ELSE @ \o <<Status("events", TRUE),
                                      Status("finnhub_earnings", fh = "ok")>>]
    /\ UNCHANGED <<fs, sc, config, runs>>
    /\ UNCHANGED <<resolverVars, libraryVars>>

\* _fetch_ai_rss_events, called when ai_feeds is not empty.
AcquireAiRss ==
    /\ etl.pc = "rss"
    /\ \/ /\ ~config.ai_feeds
          /\ etl' = [etl EXCEPT !.pc = "gemini"]
          /\ UNCHANGED budget
       \/ /\ config.ai_feeds
          /\ \E ok \in CallOutcomes :
              /\ budget' = IF ok THEN budget ELSE budget - 1
              /\ etl' = [etl EXCEPT !.pc = "gemini", !.calls = @ \cup {"rss"},
                           !.statuses = Append(@, Status("ai_rss_1", ok))]
    /\ UNCHANGED <<fs, sc, config, runs>>
    /\ UNCHANGED <<resolverVars, libraryVars>>

\* _fetch_gemini_market_news.
AcquireGemini ==
    /\ etl.pc = "gemini"
    /\ \E ok \in CallOutcomes :
        /\ budget' = IF ok THEN budget ELSE budget - 1
        /\ etl' = [etl EXCEPT !.pc = "arxiv", !.calls = @ \cup {"gemini"},
                     !.statuses = Append(@, Status("gemini_news", ok))]
    /\ UNCHANGED <<fs, sc, config, runs>>
    /\ UNCHANGED <<resolverVars, libraryVars>>

\* _fetch_arxiv_events.
AcquireArxiv ==
    /\ etl.pc = "arxiv"
    /\ \E ok \in CallOutcomes :
        /\ budget' = IF ok THEN budget ELSE budget - 1
        /\ etl' = [etl EXCEPT !.pc = "write_market", !.calls = @ \cup {"arxiv"},
                     !.statuses = Append(@, Status("arxiv", ok))]
    /\ UNCHANGED <<fs, sc, config, runs>>
    /\ UNCHANGED <<resolverVars, libraryVars>>

\* The steps whose fetcher reads the provider's JSON outside any try block:
\* _fetch_okx_funding calls payload.get and _fetch_events_real calls
\* entry.get on each element of the payload.
RaisingSteps == {"funding", "events"}

\* A provider answers with well-formed JSON of another shape (a list where
\* an object is read, an object or strings where a list of objects is
\* read): the fetcher raises AttributeError, nothing in run() catches it
\* and the process ends with a traceback and exit code 1.
AcquireRaises ==
    /\ etl.pc \in RaisingSteps
    /\ budget > 0
    /\ budget' = budget - 1
    /\ etl' = [etl EXCEPT !.pc = "raised", !.calls = @ \cup {etl.pc},
                          !.outcome = "raised", !.exit = 1]
    /\ UNCHANGED <<fs, sc, config, runs>>
    /\ UNCHANGED <<resolverVars, libraryVars>>

\* json.dump(market_payload) into raw_market.json.
WriteRawMarket ==
    /\ etl.pc = "write_market"
    /\ fs' = [fs EXCEPT !.market =
                [state |-> "ok", day |-> etl.day, run |-> etl.run,
                 put_call |-> (etl.put_call # "none"),
                 aaii |-> (etl.aaii # "none")]]
    /\ etl' = [etl EXCEPT !.pc = "write_events",
                          !.writes = Append(@, "raw_market")]
    /\ UNCHANGED <<sc, config, runs, budget>>
    /\ UNCHANGED <<resolverVars, libraryVars>>

\* json.dump({"events": ..., "ai_updates": ...}) into raw_events.json.
WriteRawEvents ==
    /\ etl.pc = "write_events"
    /\ fs' = [fs EXCEPT !.events =
                [state |-> "ok", day |-> etl.day, run |-> etl.run]]
    /\ etl' = [etl EXCEPT !.pc = "write_status",
                          !.writes = Append(@, "raw_events")]
    /\ UNCHANGED <<sc, config, runs, budget>>
    /\ UNCHANGED <<resolverVars, libraryVars>>

\* json.dump(status_payload) into etl_status.json.
WriteStatus ==
    /\ etl.pc = "write_status"
    /\ fs' = [fs EXCEPT !.status =
                [state |-> "ok", date |-> etl.day, run |-> etl.run,
                 ok |-> etl.overall_ok]]
    /\ etl' = [etl EXCEPT !.pc = "touch_marker",
                          !.writes = Append(@, "etl_status")]
    /\ UNCHANGED <<sc, config, runs, budget>>
    /\ UNCHANGED <<resolverVars, libraryVars>>

\* A marker touched in place of the status report.
TouchMarkerEarly ==
    /\ etl.pc \in {"write_status", "touch_marker"}
    /\ fs' = [fs EXCEPT !.fetch_markers = @ \cup {etl.day}]
    /\ etl' = [etl EXCEPT !.pc = "record_completed",
                          !.writes = Append(@, "marker")]
    /\ UNCHANGED <<sc, config, runs, budget>>
    /\ UNCHANGED <<resolverVars, libraryVars>>

\* marker.touch(exist_ok=True).
TouchMarker ==
    /\ etl.pc = "touch_marker"
    /\ fs' = [fs EXCEPT !.fetch_markers = @ \cup {etl.day}]
    /\ etl' = [etl EXCEPT !.pc = "record_completed",
                          !.writes = Append(@, "marker")]
    /\ UNCHANGED <<sc, config, runs, budget>>
    /\ UNCHANGED <<resolverVars, libraryVars>>

\* run_meta.record_step(..., "completed") and return 0.
EtlRecordCompleted ==
    /\ etl.pc = "record_completed"
    /\ fs' = [fs EXCEPT !.meta_etl = "completed"]
    /\ etl' = [etl EXCEPT !.pc = "done", !.outcome = "completed", !.exit = 0,
                          !.writes = Append(@, "run_meta")]
    /\ UNCHANGED <<sc, config, runs, budget>>
    /\ UNCHANGED <<resolverVars, libraryVars>>

\* The process ends; its locals are gone.
EtlReturn ==
    /\ etl.pc \in {"done", "raised"}
    /\ etl' = EtlIdle
    /\ UNCHANGED <<fs, sc, config, runs, budget>>
    /\ UNCHANGED <<resolverVars, libraryVars>>

\* The process dies in the middle of run() (a kill, a power loss, a fault
\* that is not caught).  Dying between open("w") and the end of json.dump
\* leaves the file being written cut short.
EtlCrash ==
    /\ etl.pc \notin {"idle", "done", "raised"}
    /\ \/ UNCHANGED fs
       \/ /\ etl.pc = "write_market"
          /\ fs' = [fs EXCEPT !.market = Corrupt]
       \/ /\ etl.pc = "write_events"
          /\ fs' = [fs EXCEPT !.events = Corrupt]
       \/ /\ etl.pc = "write_status"
          /\ fs' = [fs EXCEPT !.status = Corrupt]
    /\ etl' = EtlIdle
    /\ UNCHANGED <<sc, config, runs, budget>>
    /\ UNCHANGED <<resolverVars, libraryVars>>

NextEtl ==
    \/ EtlInvoke
    \/ EtlSkipCached
    \/ EtlLoadPrevious
    \/ AcquireMarket
    \/ AcquireHK
    \/ AcquireThemes
    \/ EdgarHealthcheck
    \/ AcquirePutCall
    \/ AcquireAAII
    \/ AcquireSpot
    \/ AcquireFunding
    \/ AcquireBasis
    \/ AcquireEtfFlow
    \/ BuildBtc
    \/ AcquireEvents
    \/ AcquireAiRss
    \/ AcquireGemini
    \/ AcquireArxiv
    \/ AcquireRaises
    \/ WriteRawMarket
    \/ WriteRawEvents
    \/ WriteStatus
    \/ TouchMarker
    \/ EtlRecordCompleted
    \/ EtlReturn
    \/ EtlCrash

\* ========================================================================
\* Part 2: Pipeline.  run() of scoring/run_scores.py
\* ========================================================================

\* degraded of run(): etl_status.json is missing or does not say ok, or
\* raw_market.json is missing.
Degraded(status, market) ==
    \/ ~(status.state = "ok" /\ status.ok)
    \/ market.state # "ok"

ScoringDegraded == Degraded(fs.status, fs.market)

\* A strict check that never aborts.
StrictAbortNever(degraded, strict) == FALSE

\* if degraded and os.getenv("STRICT")
StrictAbort(degraded, strict) == degraded /\ strict

\* run() up to record_step(..., "started"); STRICT is set by --strict.
ScInvoke ==
    /\ etl.pc = "idle" /\ sc.pc = "idle"
    /\ runs < MaxRuns /\ budget > 0
    /\ \E force \in BOOLEAN, strict \in BOOLEAN, day \in Days :
        sc' = [ScIdle EXCEPT !.pc = "check", !.force = force,
                             !.strict = strict, !.day = day,
                             !.run = runs + 1, !.fs0 = fs,
                             !.writes = <<"run_meta">>]
    /\ runs' = runs + 1
    /\ fs' = [fs EXCEPT !.meta_scoring = "started"]
    /\ budget' = budget - 1
    /\ UNCHANGED <<etl, config>>
    /\ UNCHANGED <<resolverVars, libraryVars>>

\* A skip of the scoring step that does not look at --force.
ScSkipCachedIgnoringForce ==
    /\ sc.pc = "check"
    /\ Exists(fs.done_markers[sc.day])
    /\ fs' = [fs EXCEPT !.meta_scoring = "cached"]
    /\ sc' = [sc EXCEPT !.pc = "done", !.outcome = "cached-skip", !.exit = 0,
                        !.writes = Append(@, "run_meta")]
    /\ UNCHANGED <<etl, config, runs, budget>>
    /\ UNCHANGED <<resolverVars, libraryVars>>

\* if state_path.exists() and not args.force: record "cached", return 0.
ScSkipCached ==
    /\ sc.pc = "check"
    /\ Exists(fs.done_markers[sc.day]) /\ ~sc.force
    /\ fs' = [fs EXCEPT !.meta_scoring = "cached"]
    /\ sc' = [sc EXCEPT !.pc = "done", !.outcome = "cached-skip", !.exit = 0,
                        !.writes = Append(@, "run_meta")]
    /\ UNCHANGED <<etl, config, runs, budget>>
    /\ UNCHANGED <<resolverVars, libraryVars>>

\* _load_json of the three ETL artifacts, all of which parse, and the
\* computation of degraded.
ScLoad ==
    /\ sc.pc = "check"
    /\ ~(Exists(fs.done_markers[sc.day]) /\ ~sc.force)
    /\ Corrupt \notin {fs.market, fs.events, fs.status}
    /\ sc' = [sc EXCEPT !.pc = "strict", !.degraded = ScoringDegraded,
                 !.status_ok = IF fs.status.state = "ok"
                               THEN (IF fs.status.ok THEN "true" ELSE "false")
                               ELSE "missing"]
    /\ UNCHANGED <<fs, etl, config, runs, budget>>
    /\ UNCHANGED <<resolverVars, libraryVars>>

\* _load_json of an artifact that does not parse: json.load raises and
\* nothing in run() catches it.
ScLoadRaises ==
    /\ sc.pc = "check"
    /\ ~(Exists(fs.done_markers[sc.day]) /\ ~sc.force)
    /\ Corrupt \in {fs.market, fs.events, fs.status}
    /\ sc' = [sc EXCEPT !.pc = "done", !.outcome = "raised", !.exit = 1]
    /\ UNCHANGED <<fs, etl, config, runs, budget>>
    /\ UNCHANGED <<resolverVars, libraryVars>>

\* The strict abort: record "failed", return 2.
ScStrictAbort ==
    /\ sc.pc = "strict"
    /\ StrictAbort(sc.degraded, sc.strict)
    /\ fs' = [fs EXCEPT !.meta_scoring = "failed"]
    /\ sc' = [sc EXCEPT !.pc = "done", !.outcome = "failed", !.exit = 2,
                        !.writes = Append(@, "run_meta")]
    /\ UNCHANGED <<etl, config, runs, budget>>
    /\ UNCHANGED <<resolverVars, libraryVars>>

\* _load_json(sentiment_history.json) of a file that does not parse:
\* json.load raises and nothing in run() catches it.
ScComputeRaises ==
    /\ sc.pc = "strict"
    /\ ~StrictAbort(sc.degraded, sc.strict)
    /\ fs.history = Corrupt
    /\ sc' = [sc EXCEPT !.pc = "done", !.outcome = "raised", !.exit = 1]
    /\ UNCHANGED <<fs, etl, config, runs, budget>>
    /\ UNCHANGED <<resolverVars, libraryVars>>

\* The sentiment history is loaded and the scores and actions are computed
\* (no file is touched).
ScCompute ==
    /\ sc.pc = "strict"
    /\ ~StrictAbort(sc.degraded, sc.strict)
    /\ fs.history # Corrupt
    /\ sc' = [sc EXCEPT !.pc = "write_history"]
    /\ UNCHANGED <<fs, etl, config, runs, budget>>
    /\ UNCHANGED <<resolverVars, libraryVars>>

\* json.dump(history) into sentiment_history.json.
ScWriteHistory ==
    /\ sc.pc = "write_history"
    /\ fs' = [fs EXCEPT !.history = [state |-> "ok"]]
    /\ sc' = [sc EXCEPT !.pc = "write_scores",
                        !.writes = Append(@, "sentiment_history")]
    /\ UNCHANGED <<etl, config, runs, budget>>
    /\ UNCHANGED <<resolverVars, libraryVars>>

\* _save_json(scores.json) and _save_json(score_history.json).
ScWriteScores ==
    /\ sc.pc = "write_scores"
    /\ fs' = [fs EXCEPT !.scores =
                [state |-> "ok", day |-> sc.day, run |-> sc.run,
                 degraded |-> sc.degraded]]
    /\ sc' = [sc EXCEPT !.pc = "write_actions",
                        !.writes = @ \o <<"scores", "score_history">>]
    /\ UNCHANGED <<etl, config, runs, budget>>
    /\ UNCHANGED <<resolverVars, libraryVars>>

\* _save_json(actions.json).
ScWriteActions ==
    /\ sc.pc = "write_actions"
    /\ fs' = [fs EXCEPT !.actions =
                [state |-> "ok", day |-> sc.day, run |-> sc.run]]
    /\ sc' = [sc EXCEPT !.pc = "write_marker",
                        !.writes = Append(@, "actions")]
    /\ UNCHANGED <<etl, config, runs, budget>>
    /\ UNCHANGED <<resolverVars, libraryVars>>

\* state_path.write_text(trading_day).
ScWriteMarker ==
    /\ sc.pc = "write_marker"
    /\ fs' = [fs EXCEPT !.done_markers[sc.day] =
                [state |-> "ok", content |-> sc.day]]
    /\ sc' = [sc EXCEPT !.pc = "record_completed",
                        !.writes = Append(@, "done_marker")]
    /\ UNCHANGED <<etl, config, runs, budget>>
    /\ UNCHANGED <<resolverVars, libraryVars>>

\* run_meta.record_step(..., "completed") and return 0.
ScRecordCompleted ==
    /\ sc.pc = "record_completed"
    /\ fs' = [fs EXCEPT !.meta_scoring = "completed"]
    /\ sc' = [sc EXCEPT !.pc = "done", !.outcome = "completed", !.exit = 0,
                        !.writes = Append(@, "run_meta")]
    /\ UNCHANGED <<etl, config, runs, budget>>
    /\ UNCHANGED <<resolverVars, libraryVars>>

\* The process ends; its locals are gone.
ScReturn ==
    /\ sc.pc = "done"
    /\ sc' = ScIdle
    /\ UNCHANGED <<fs, etl, config, runs, budget>>
    /\ UNCHANGED <<resolverVars, libraryVars>>

\* The process dies in the middle of run(); a file being written is left
\* cut short.
ScCrash ==
    /\ sc.pc \notin {"idle", "done"}
    /\ \/ UNCHANGED fs
       \/ /\ sc.pc = "write_history"
          /\ fs' = [fs EXCEPT !.history = Corrupt]
       \/ /\ sc.pc = "write_scores"
          /\ fs' = [fs EXCEPT !.scores = Corrupt]
       \/ /\ sc.pc = "write_actions"
          /\ fs' = [fs EXCEPT !.actions = Corrupt]
    /\ sc' = ScIdle
    /\ UNCHANGED <<etl, config, runs, budget>>
    /\ UNCHANGED <<resolverVars, libraryVars>>

NextScoring ==
    \/ ScInvoke
    \/ ScSkipCached
    \/ ScLoad
    \/ ScLoadRaises
    \/ ScStrictAbort
    \/ ScComputeRaises
    \/ ScCompute
    \/ ScWriteHistory
    \/ ScWriteScores
    \/ ScWriteActions
    \/ ScWriteMarker
    \/ ScRecordCompleted
    \/ ScReturn
    \/ ScCrash

\* ------------------------------------------------------------------------
\* Specifications of the pipeline
\* ------------------------------------------------------------------------

\* The pipeline from an empty working tree or from the day after a completed
\* day: invocations of the ETL and of the scoring step, one at a time, any of
\* which may die at any step, and failing acquisition calls, MaxEvents in all.  Every optional source is
\* configured (SpecAcquire varies the configuration).
Init ==
    /\ ResolverIdle
    /\ LibraryIdle
    /\ fs \in {EmptyFs, PriorDayFs}
    /\ etl = EtlIdle
    /\ sc = ScIdle
    /\ config = [finnhub |-> "key", ai_feeds |-> TRUE]
    /\ runs = 0
    /\ budget = MaxEvents

Next == NextEtl \/ NextScoring

Spec == Init /\ [][Next]_vars

\* One invocation of the ETL step with up to MaxAcquireFailures failing
\* acquisition calls.
InitAcquire ==
    /\ ResolverIdle
    /\ LibraryIdle
    /\ fs \in {EmptyFs, PriorDayFs}
    /\ etl = EtlIdle
    /\ sc = ScIdle
    /\ config \in Configs
    /\ runs = MaxRuns - 1
    /\ budget = 1 + MaxAcquireFailures

SpecAcquire == InitAcquire /\ [][NextEtl]_vars

\* ========================================================================
\* Claims about the ETL run and the scoring step
\* ========================================================================

\* The state the invocation in progress started from is a completed run for
\* its trading day: the marker of the day, the three artifacts, and a status
\* report that parses and records the day.
StartedComplete ==
    /\ etl.day \in etl.fs0.fetch_markers
    /\ Exists(etl.fs0.market) /\ Exists(etl.fs0.events)
    /\ etl.fs0.status.state = "ok"
    /\ etl.fs0.status.date = etl.day

\* The three artifacts in out/ were written whole by the invocation in
\* progress.
ArtifactsOfThisRun ==
    /\ fs.market.state = "ok" /\ fs.market.run = etl.run
    /\ fs.events.state = "ok" /\ fs.events.run = etl.run
    /\ fs.status.state = "ok" /\ fs.status.run = etl.run
    /\ fs.status.date = etl.day

\* The acquisition steps run() takes whatever the configuration and the
\* outcomes of the other steps are.
EveryStep ==
    {"market", "hk", "theme", "edgar", "put_call", "aaii", "spot", "funding",
     "flow", "events", "gemini", "arxiv"}

\* C4: a non-forced invocation for day D that starts from a completed run
\* for D ends in cached-skip: once past the skip decision it has returned 0
\* with outcome cached-skip, made no acquisition call, and the three
\* artifacts and the markers are what they were.
C4_CachedSkip ==
    (/\ etl.pc \notin {"idle", "check"}
     /\ ~etl.force
     /\ StartedComplete)
    => /\ etl.pc = "done"
       /\ etl.outcome = "cached-skip"
       /\ etl.exit = 0
       /\ etl.calls = {}
       /\ fs.market = etl.fs0.market
       /\ fs.events = etl.fs0.events
       /\ fs.status = etl.fs0.status
       /\ fs.fetch_markers = etl.fs0.fetch_markers

C4_Witness ==
    /\ etl.pc = "done"
    /\ ~etl.force
    /\ StartedComplete
    /\ etl.outcome = "cached-skip"

C6_MarkerIsLastWrite ==
    /\ (\E i \in DOMAIN etl.writes : etl.writes[i] = "marker")
         => ArtifactsOfThisRun
    /\ (etl.pc = "done" /\ etl.outcome = "completed")
         => etl.writes[Len(etl.writes)] = "marker"

\* C6, amended: the marker is written only after raw_market.json,
\* raw_events.json and etl_status.json were written, in this order, by the
\* same run for the same day; until then the markers are what they were at
\* the start of the run; and the only write after the marker is the step
\* record in run_meta.json.
C6_MarkerAfterArtifacts ==
    /\ \A i \in DOMAIN etl.writes :
         etl.writes[i] = "marker" =>
           /\ i = 5
           /\ SubSeq(etl.writes, 2, 4)
                = <<"raw_market", "raw_events", "etl_status">>
           /\ ArtifactsOfThisRun
           /\ \A j \in DOMAIN etl.writes : j > i => etl.writes[j] = "run_meta"
    /\ (etl.pc # "idle" /\ ~\E i \in DOMAIN etl.writes : etl.writes[i] = "marker")
         => fs.fetch_markers = etl.fs0.fetch_markers

C6_Witness ==
    /\ etl.pc = "done"
    /\ etl.outcome = "completed"
    /\ etl.writes = <<"run_meta", "raw_market", "raw_events", "etl_status",
                      "marker", "run_meta">>
    /\ etl.day \notin etl.fs0.fetch_markers

\* C7: a cached-skip is taken only over artifacts that one run for the day
\* wrote whole: the three files parse, come from the same run, and are of
\* the trading day.
C7_NoFalseAlreadyDone ==
    etl.outcome = "cached-skip" =>
        /\ fs.market.state = "ok"
        /\ fs.events.state = "ok"
        /\ fs.status.state = "ok"
        /\ fs.market.run = fs.status.run
        /\ fs.events.run = fs.status.run
        /\ fs.market.day = etl.day
        /\ fs.events.day = etl.day
        /\ fs.status.date = etl.day

\* C8: a non-forced invocation that finds the marker of its day but not a
\* complete state (an artifact missing, the status report unreadable or of
\* another date) does not skip, and when it is done it has taken every
\* acquisition step and written the three artifacts and the marker.
C8_IncompleteStateRuns ==
    (/\ etl.pc # "idle"
     /\ ~etl.force
     /\ etl.day \in etl.fs0.fetch_markers
     /\ ~StartedComplete)
    => /\ etl.outcome # "cached-skip"
       /\ etl.pc = "done" =>
            /\ etl.outcome = "completed"
            /\ EveryStep \subseteq etl.calls
            /\ ArtifactsOfThisRun
            /\ etl.day \in fs.fetch_markers

C8_Witness ==
    /\ etl.pc = "done"
    /\ ~etl.force
    /\ etl.day \in etl.fs0.fetch_markers
    /\ etl.fs0.status.state = "ok"
    /\ etl.fs0.status.date # etl.day
    /\ etl.outcome = "completed"

\* C9: a forced invocation never ends in cached-skip; when it is done it has
\* taken every acquisition step and the three artifacts are those it wrote,
\* also when it started from a completed run for the day.
C9_ForceReexecutes ==
    (etl.pc # "idle" /\ etl.force)
    => /\ etl.outcome # "cached-skip"
       /\ etl.pc = "done" =>
            /\ etl.outcome = "completed"
            /\ EveryStep \subseteq etl.calls
            /\ ArtifactsOfThisRun

C9_Witness ==
    /\ etl.pc = "done"
    /\ etl.force
    /\ StartedComplete
    /\ etl.outcome = "completed"
    /\ etl.fs0.market.run # etl.run

\* The statuses of the acquisitions that decide ok.
RequiredNames ==
    {"market", "hongkong_HSI", "fmp_theme", "edgar", "cboe_put_call",
     "aaii_sentiment", "coinbase_spot", "okx_funding", "okx_basis",
     "btc_etf_flow"}

RequiredFailed ==
    \E i \in DOMAIN etl.statuses :
        etl.statuses[i].name \in RequiredNames /\ ~etl.statuses[i].ok

OptionalFailed ==
    \E i \in DOMAIN etl.statuses :
        etl.statuses[i].name \notin RequiredNames /\ ~etl.statuses[i].ok

\* C10: once the acquisitions are over, overall_ok is true exactly when no
\* required acquisition reported a failure, whatever substitute statuses
\* and optional-source statuses were appended, and this is the ok that
\* etl_status.json records.
C10_OkIsRequiredConjunction ==
    /\ etl.pc \in {"write_market", "write_events", "write_status",
                   "touch_marker", "record_completed"}
         => etl.overall_ok = ~RequiredFailed
    /\ etl.pc \in {"touch_marker", "record_completed"}
         => /\ fs.status.state = "ok"
            /\ fs.status.ok = ~RequiredFailed

C10_Witness ==
    /\ etl.pc = "touch_marker"
    /\ ~fs.status.ok
    /\ \E i \in DOMAIN etl.statuses :
         etl.statuses[i] = Status("cboe_put_call_fallback", TRUE)
    /\ OptionalFailed

\* C11: once the status report is written, a run in which exactly one of
\* the market quantities (an index or a sector proxy) failed through its
\* whole chain reports ok = false.
C11_SingleQuantityClearsOk ==
    (/\ etl.pc \in {"touch_marker", "record_completed"}
     /\ Cardinality(etl.market_failed) = 1)
    => /\ fs.status.state = "ok"
       /\ ~fs.status.ok

\* C12: a run that is not skipped ends by returning normally, having taken
\* every acquisition step and written the document, the events and the
\* status report, whatever the providers answered.
C12_NoUnhandledFault ==
    (etl.outcome \notin {"none", "cached-skip"})
    => /\ etl.pc = "done"
       /\ etl.outcome = "completed"
       /\ etl.exit = 0
       /\ EveryStep \subseteq etl.calls
       /\ ArtifactsOfThisRun

\* ========================================================================
\* Part 3: Library.  _request_json of etl/run_fetch.py
\* ========================================================================

\* Largest policy.retries that is enumerated.
MaxRetries == 2
\* Longest time, in ticks, one HTTP request takes (per_request_timeout).
MaxRequestTime == 3

\* Scoring runs over one sentiment history.
MaxHistoryRuns == 255

\* Entries of a history series handed to aggregate.
MaxSeriesLen == 3

\* Scoring runs that score the sentiment over one history.
MaxSentimentRuns == 3

\* Steps (ETL, scoring, digest) run on one trading day.
MaxPipelineSteps == 5

\* Entries of one EDGAR fact.
MaxFactEntries == 5

Min(a, b) == IF a <= b THEN a ELSE b

\* The characters of the body quoted in "HTTP 状态错误".
SnippetLimit == 200

\* RetryPolicy.status_forcelist as constructed by default.
Forcelist == {408, 409, 425, 429, 500, 502, 503, 504}

\* A status_forcelist that also holds 202 Accepted.
ForcelistWithAccepted == Forcelist \cup {202}

\* Status codes the server answers with.
StatusCodes == {200, 202, 404, 429, 503}

\* Response.raise_for_status raises for the client and server error codes.
raise_for_status(status) == status >= 400 /\ status < 600

\* Requests after which the model stops following a call.
MaxRequests == MaxRetries + 1

\* Lengths of the response bodies of error responses; resp.text[:200].
BodyLengths == {0, 5, SnippetLimit + 1}

\* Retry-After header texts: none, empty, an HTTP date, and seconds.
RetryAfterHeaders == {"none", "", "Wed, 21 Oct 2026 07:28:00 GMT", "0", "5"}

\* float(text) in ticks for the texts that parse.
FloatTicks == [h \in {"0", "5"} |-> CASE h = "0" -> 0 [] h = "5" -> 10]

\* _respect_retry_after: the header as a float, None when it is absent,
\* empty or not a number.
_respect_retry_after(header) ==
    IF header \in {"none", ""} THEN NoFloat
    ELSE IF header \in DOMAIN FloatTicks THEN FloatTicks[header]
    ELSE NoFloat

\* The retry policies that are enumerated (times in ticks).
Policies ==
    [retries : 0..MaxRetries, backoff_start : {1, 2}, backoff_factor : {2},
     jitter : {0, 1}, status_forcelist : {Forcelist},
     max_sleep : {1, 3}, hard_deadline : {0, 6}]
    \cup
    [retries : {0, 1}, backoff_start : {1}, backoff_factor : {2},
     jitter : {0}, status_forcelist : {ForcelistWithAccepted},
     max_sleep : {1}, hard_deadline : {0, 6}]

\* How long one HTTP request takes: no time, one tick, or all of the
\* per-request timeout.
RequestTimes == {0, 1, MaxRequestTime}

\* random.random(): its least value and the limit of its largest ones.
RandomDraws == {0, 1}

\* min(0.5 * (1 + random.random()), 1.0) in ticks.
ParseRetrySleeps == {1 + r : r \in RandomDraws}

\* _sleep_exact: the time actually slept.
_sleep_exact(seconds) == IF seconds > 0 THEN seconds ELSE 0

\* _sleep: the time actually slept.
_sleep(seconds, disabled) == IF seconds <= 0 \/ disabled THEN 0 ELSE seconds

\* A backoff that is not capped.
BackoffSleepUncapped(delay, r, jitter, max_sleep) == delay * (1 + r * jitter)

\* min(delay * (1.0 + random.random() * policy.jitter), policy.max_sleep)
BackoffSleep(delay, r, jitter, max_sleep) ==
    Min(delay * (1 + r * jitter), max_sleep)

\* policy.hard_deadline and (monotonic() - start + sleep_seconds) > hard_deadline
DeadlineExceeded(elapsed, sleep_seconds) ==
    req.hard_deadline # 0 /\ elapsed + sleep_seconds > req.hard_deadline

\* The record of a sleep made at time `before`.
SleepRecord(kind, seconds, checked, before, status, header) ==
    [kind |-> kind, seconds |-> seconds, slept |-> _sleep_exact(seconds),
     checked |-> checked, before |-> before, status |-> status,
     header |-> header]

\* _request_json is called with a policy; THROTTLE_DISABLED is what the
\* environment set.
RequestStart ==
    /\ req.pc = "idle"
    /\ \E policy \in Policies, disabled \in BOOLEAN :
        req' = [ReqIdle EXCEPT
                  !.pc = "loop",
                  !.retries = policy.retries,
                  !.backoff_start = policy.backoff_start,
                  !.backoff_factor = policy.backoff_factor,
                  !.jitter = policy.jitter,
                  !.status_forcelist = policy.status_forcelist,
                  !.max_sleep = policy.max_sleep,
                  !.hard_deadline = policy.hard_deadline,
                  !.throttle_disabled = disabled,
                  !.delay = policy.backoff_start]
    /\ UNCHANGED otherThanReq

\* The error a retry branch leaves with: RuntimeError after a transport
\* error (status 0), the HTTPError of raise_for_status after a response.
RetryError(status, deadline) ==
    IF status = 0
    THEN [kind |-> IF deadline THEN "deadline" ELSE "request_failed",
          status_code |-> 0, body_len |-> 0,
          snippet |-> [of |-> "exception", len |-> 0]]
    ELSE [kind |-> "http_error", status_code |-> status, body_len |-> 0,
          snippet |-> [of |-> "none", len |-> 0]]

\* The sleep-or-fail tail shared by the two retry branches.  After a
\* transport error (status 0) the two tests raise; after a response they
\* call raise_for_status, which raises for the error codes only.
RetryOrFail(now, sleep_seconds, status, header, request_time) ==
    LET raises == status = 0 \/ raise_for_status(status)
    IN  IF req.attempt + 1 > req.retries /\ raises
        THEN [req EXCEPT !.pc = "done", !.outcome = "raised",
                         !.attempt = @ + 1, !.elapsed = now,
                         !.request_time = request_time,
                         !.error = RetryError(status, FALSE)]
        ELSE IF DeadlineExceeded(now, sleep_seconds) /\ raises
        THEN [req EXCEPT !.pc = "done", !.outcome = "raised",
                         !.attempt = @ + 1, !.elapsed = now,
                         !.request_time = request_time,
                         !.error = RetryError(status, TRUE)]
        ELSE [req EXCEPT !.attempt = @ + 1,
                         !.elapsed = now + _sleep_exact(sleep_seconds),
                         !.request_time = request_time,
                         !.delay = @ * req.backoff_factor,
                         !.last = SleepRecord("retry", sleep_seconds, TRUE, now,
                                              status, header)]

\* One turn of the loop in which session.request raises RequestException.
RequestException ==
    /\ req.pc = "loop"
    /\ req.attempt < MaxRequests
    /\ \E d \in RequestTimes, r \in RandomDraws :
        req' = RetryOrFail(req.elapsed + d,
                           BackoffSleep(req.delay, r, req.jitter, req.max_sleep),
                           0, "none", d)
    /\ UNCHANGED otherThanReq

\* One turn of the loop in which the status code is in status_forcelist.
RequestRetryable ==
    /\ req.pc = "loop"
    /\ req.attempt < MaxRequests
    /\ \E d \in RequestTimes, r \in RandomDraws,
          status \in StatusCodes \cap req.status_forcelist,
          header \in RetryAfterHeaders :
        LET retry_after == IF status = 429 THEN _respect_retry_after(header)
                           ELSE NoFloat
            sleep_seconds ==
                IF retry_after # NoFloat THEN retry_after
                ELSE BackoffSleep(req.delay, r, req.jitter, req.max_sleep)
        IN req' = RetryOrFail(req.elapsed + d, sleep_seconds, status, header, d)
    /\ UNCHANGED otherThanReq

\* An error text that never quotes the body.
StatusErrorWithoutBody(status, body_len) ==
    [kind |-> "status_error", status_code |-> status, body_len |-> body_len,
     snippet |-> [of |-> "exception", len |-> 0]]

\* RuntimeError(f"HTTP 状态错误: {resp.status_code} {snippet}"), snippet
\* being resp.text[:200], or str(exc) when the body is empty.
StatusError(status, body_len) ==
    [kind |-> "status_error", status_code |-> status, body_len |-> body_len,
     snippet |-> IF body_len > 0
                 THEN [of |-> "body", len |-> Min(body_len, SnippetLimit)]
                 ELSE [of |-> "exception", len |-> 0]]

\* One turn in which the status code is an error outside status_forcelist:
\* raise_for_status raises and RuntimeError leaves the function.
RequestHttpError ==
    /\ req.pc = "loop"
    /\ req.attempt < MaxRequests
    /\ \E d \in RequestTimes, body_len \in BodyLengths,
          status \in {c \in StatusCodes \ req.status_forcelist :
                        raise_for_status(c)} :
        req' = [req EXCEPT !.pc = "done", !.outcome = "raised",
                           !.attempt = @ + 1, !.elapsed = @ + d,
                           !.request_time = d,
                           !.error = StatusError(status, body_len)]
    /\ UNCHANGED otherThanReq

\* The status codes of the responses whose body is parsed.
ParsedStatus ==
    {c \in StatusCodes \ req.status_forcelist : ~raise_for_status(c)}

\* RuntimeError("响应解析失败（JSON）")
ParseError ==
    [kind |-> "parse", status_code |-> 0, body_len |-> 0,
     snippet |-> [of |-> "none", len |-> 0]]

\* One turn in which the body of the response is not JSON.
RequestBadJson ==
    /\ req.pc = "loop"
    /\ req.attempt < MaxRequests
    /\ ParsedStatus # {}
    /\ \E d \in RequestTimes, p \in ParseRetrySleeps :
        req' = IF req.attempt + 1 <= req.retries
               THEN [req EXCEPT !.attempt = @ + 1,
                                !.elapsed = @ + d + _sleep_exact(p),
                                !.request_time = d,
                                !.last = SleepRecord("parse", p, FALSE,
                                                     req.elapsed + d, 200, "none")]
               ELSE [req EXCEPT !.pc = "done", !.outcome = "raised",
                                !.attempt = @ + 1, !.elapsed = @ + d,
                                !.request_time = d,
                                !.error = ParseError]
    /\ UNCHANGED otherThanReq

\* One turn in which the response parses: the politeness delay
\* after_each_sleep the caller asked for, then the payload is returned.
RequestOk ==
    /\ req.pc = "loop"
    /\ req.attempt < MaxRequests
    /\ ParsedStatus # {}
    /\ \E d \in RequestTimes, after \in {0, 1} :
        req' = IF after > 0
               THEN [req EXCEPT !.pc = "done", !.outcome = "returned",
                                !.after_each_sleep = after,
                                !.attempt = @ + 1,
                                !.elapsed = @ + d + _sleep_exact(after),
                                !.request_time = d,
                                !.last = SleepRecord("after_each", after, FALSE,
                                                     req.elapsed + d, 200, "none")]
               ELSE [req EXCEPT !.pc = "done", !.outcome = "returned",
                                !.attempt = @ + 1, !.elapsed = @ + d,
                                !.request_time = d]
    /\ UNCHANGED otherThanReq

\* The caller's delay between two calls: _sleep(throttle), _sleep(0.2).
InterCallDelay ==
    /\ req.pc = "done"
    /\ req.outcome = "returned"
    /\ \E seconds \in {0, 1} :
        req' = [req EXCEPT !.pc = "delayed",
                  !.elapsed = @ + _sleep(seconds, req.throttle_disabled),
                  !.last = [kind |-> "inter_call", seconds |-> seconds,
                            slept |-> _sleep(seconds, req.throttle_disabled),
                            checked |-> FALSE, before |-> req.elapsed,
                            status |-> 200, header |-> "none"]]
    /\ UNCHANGED otherThanReq

InitRequest ==
    /\ ResolverIdle
    /\ PipelineIdle
    /\ LibraryIdle

NextRequest ==
    \/ RequestStart
    \/ RequestException
    \/ RequestRetryable
    \/ RequestHttpError
    \/ RequestBadJson
    \/ RequestOk
    \/ InterCallDelay

SpecRequest == InitRequest /\ [][NextRequest]_vars

\* ------------------------------------------------------------------------
\* Claims about _request_json
\* ------------------------------------------------------------------------

\* The last sleep took its length from a Retry-After header.
LastFromRetryAfter ==
    /\ req.last.kind = "retry"
    /\ req.last.status = 429
    /\ _respect_retry_after(req.last.header) # NoFloat

\* C13 as stated: every sleep made before a retry attempt is at most
\* policy.max_sleep.
C13_SleepAtMostMaxSleep ==
    req.last.kind \in {"retry", "parse"} => req.last.seconds <= req.max_sleep

\* C13, amended: a computed backoff sleep is at most policy.max_sleep; a
\* sleep taken from the Retry-After header of a 429 response is the
\* header's value, whatever max_sleep is, and ends within hard_deadline
\* when there is one; the sleep before a parse retry is at most one second
\* (two ticks), whatever the policy.
C13_BackoffAtMostMaxSleep ==
    /\ (req.last.kind = "retry" /\ ~LastFromRetryAfter)
         => req.last.seconds <= req.max_sleep
    /\ LastFromRetryAfter
         => /\ req.last.seconds = _respect_retry_after(req.last.header)
            /\ req.hard_deadline # 0
                 => req.last.before + req.last.seconds <= req.hard_deadline
    /\ req.last.kind = "parse" => req.last.seconds \in {1, 2}

C13_Witness ==
    /\ req.last.kind = "retry"
    /\ ~LastFromRetryAfter
    /\ req.last.seconds = req.max_sleep
    /\ req.delay \div req.backoff_factor > req.max_sleep

\* C14: with a hard deadline, no sleep inside _request_json runs past it,
\* and the call ends at most one request's duration after it.
C14_DeadlineCheckedBeforeSleep ==
    req.hard_deadline # 0 =>
        /\ (req.last.kind \in {"retry", "parse", "after_each"}
              /\ req.last.slept > 0)
             => req.last.before + req.last.slept <= req.hard_deadline
        /\ req.pc = "done"
             => req.elapsed <= req.hard_deadline + req.request_time

\* C15: a retryable response that carries a numeric Retry-After is followed
\* by a sleep of exactly that value.
C15_RetryAfterHonoured ==
    (/\ req.last.kind = "retry"
     /\ req.last.status \in Forcelist
     /\ _respect_retry_after(req.last.header) # NoFloat)
    => req.last.seconds = _respect_retry_after(req.last.header)

\* C16: with THROTTLE_DISABLED set no sleep takes any time.
C16_ThrottleDisabledNoSleep ==
    req.throttle_disabled => req.last.slept = 0

\* ========================================================================
\* Part 3: Library.  The fundamentals merge and the derived ratios of
\* _fetch_theme_metrics_from_fmp, for one symbol
\* ========================================================================

\* Values the EDGAR source reports for a field, and values the FMP source
\* reports (None, zero, and a value the other source never reports).
EdgarValues == {NoFloat, 0, 2}
FmpValues   == {NoFloat, 0, 4}

\* Price and market capitalisation of the quote.
Prices     == {NoFloat, 0, 6}
MarketCaps == {NoFloat, 0, 12}

\* A "missing" test that only knows None.
IsMissingNoneOnly(x) == x = NoFloat

\* x in (None, 0.0)
IsMissing(x) == x \in {NoFloat, 0}

\* The quotient n / d; dividing by zero raises.
ZeroDivision == [raised |-> "ZeroDivisionError"]
Ratio(n, d) == [num |-> n, den |-> d]
Div(n, d) == IF d = 0 THEN ZeroDivision ELSE Ratio(n, d)

\* The ratios a quote may carry itself (pe, priceToSalesRatioTTM).
QuoteRatios == {NoRatio, Ratio(5, 1)}

\* A merge in which the secondary value always wins.
MergeFieldOverwrite(existing, value) ==
    IF value = NoFloat THEN existing ELSE value

\* One turn of the merge loop: a None from FMP is skipped, and the value is
\* taken only where the merged record holds None or 0.0.
MergeField(existing, value) ==
    IF value = NoFloat THEN existing
    ELSE IF IsMissing(existing) THEN value
    ELSE existing

\* A needs_fmp that holds every symbol.
NeedsFmpAlways(metrics) == TRUE

\* needs_fmp: some required field of the EDGAR record is None or 0.0 (a
\* symbol without EDGAR record has None in every field).
NeedsFmp(metrics) == \E f \in FundFields : IsMissing(metrics[f])

\* The fundamentals of the symbol arrive from EDGAR and, when asked, FMP.
FundStart ==
    /\ fund.pc = "idle"
    /\ \E edgar \in [FundFields -> EdgarValues],
          fmp \in [FundFields -> FmpValues], has_key \in BOOLEAN :
        fund' = [FundIdle EXCEPT !.pc = "merge", !.edgar = edgar,
                                 !.fmp = fmp, !.has_key = has_key,
                                 !.fundamentals = edgar]
    /\ UNCHANGED otherThanFund

\* if fmp_key: ... if needs_fmp: ... the merge of fmp_data into fundamentals.
MergeFundamentals ==
    /\ fund.pc = "merge"
    /\ fund' = IF fund.has_key /\ NeedsFmp(fund.edgar)
               THEN [fund EXCEPT !.pc = "ratios", !.fmp_requested = TRUE,
                       !.fmp_used = TRUE,
                       !.fundamentals =
                           [f \in FundFields |->
                              MergeField(fund.edgar[f], fund.fmp[f])]]
               ELSE [fund EXCEPT !.pc = "ratios"]
    /\ UNCHANGED otherThanFund

\* market_cap after "if market_cap in (None, 0.0) and price is not None".
EffectiveMarketCap(price, market_cap, metrics) ==
    IF IsMissing(market_cap) /\ price # NoFloat
         /\ ~IsMissing(metrics["shares_diluted_latest"])
    THEN price * metrics["shares_diluted_latest"]
    ELSE market_cap

\* computed_pe: eps = net_income / shares if shares else None, and then
\* price / eps where eps is neither None nor 0.0 (that is, the quotient
\* price * shares / net_income).
ComputedPe(price, metrics) ==
    LET net_income == metrics["net_income_ttm"]
        shares == metrics["shares_diluted_latest"]
        eps == IF shares # 0 THEN Div(net_income, shares) ELSE NoRatio
    IN IF price # NoFloat /\ net_income # NoFloat /\ ~IsMissing(shares)
       THEN IF eps # NoRatio /\ eps.num # 0
            THEN Div(price * eps.den, eps.num)
            ELSE NoRatio
       ELSE NoRatio

\* computed_ps and computed_pb: market_cap / revenue, market_cap / equity.
ComputedOverCap(market_cap, denominator) ==
    IF ~IsMissing(market_cap) /\ ~IsMissing(denominator)
    THEN Div(market_cap, denominator)
    ELSE NoRatio

\* The ratios of the symbol row are derived from the quote and the merged
\* fundamentals; pe and ps fall back to the quote's own ratio.
DeriveRatios ==
    /\ fund.pc = "ratios"
    /\ \E price \in Prices, market_cap \in MarketCaps,
          quote_pe \in QuoteRatios, quote_ps \in QuoteRatios :
        LET metrics == fund.fundamentals
            cap == EffectiveMarketCap(price, market_cap, metrics)
            cpe == ComputedPe(price, metrics)
            cps == ComputedOverCap(cap, metrics["revenue_ttm"])
            cpb == ComputedOverCap(cap, metrics["equity_latest"])
        IN fund' = [fund EXCEPT !.pc = "done",
                      !.price = price, !.market_cap = cap,
                      !.quote_pe = quote_pe, !.quote_ps = quote_ps,
                      !.computed_pe = cpe, !.computed_ps = cps,
                      !.computed_pb = cpb,
                      !.pe = IF cpe # NoRatio THEN cpe ELSE quote_pe,
                      !.ps = IF cps # NoRatio THEN cps ELSE quote_ps,
                      !.pb = cpb]
    /\ UNCHANGED otherThanFund

InitFundamentals ==
    /\ ResolverIdle
    /\ PipelineIdle
    /\ LibraryIdle

NextFundamentals ==
    \/ FundStart
    \/ MergeFundamentals
    \/ DeriveRatios

SpecFundamentals == InitFundamentals /\ [][NextFundamentals]_vars

\* ------------------------------------------------------------------------
\* Claims about the fundamentals
\* ------------------------------------------------------------------------

\* C17 as stated: after the merge, every field for which EDGAR supplied a
\* value holds that value.
C17_PrimaryNeverOverwritten ==
    fund.pc \in {"ratios", "done"} =>
        \A f \in FundFields :
            fund.edgar[f] # NoFloat => fund.fundamentals[f] = fund.edgar[f]

\* C17, amended: after the merge, every field for which EDGAR supplied a
\* value other than zero holds that value; a field EDGAR left None or 0.0
\* holds the FMP value when FMP was merged and reported one, and the EDGAR
\* value otherwise.
C17_NonZeroPrimaryKept ==
    fund.pc \in {"ratios", "done"} =>
        \A f \in FundFields :
            /\ ~IsMissing(fund.edgar[f])
                 => fund.fundamentals[f] = fund.edgar[f]
            /\ IsMissing(fund.edgar[f])
                 => fund.fundamentals[f] =
                      (IF fund.fmp_used /\ fund.fmp[f] # NoFloat
                       THEN fund.fmp[f] ELSE fund.edgar[f])

C17_Witness ==
    /\ fund.pc = "ratios"
    /\ fund.fmp_used
    /\ \E f \in FundFields :
         /\ fund.edgar[f] = 2
         /\ fund.fmp[f] = 4
         /\ fund.fundamentals[f] = 2

\* The denominators of the three ratios, as the merged fundamentals give
\* them.
EpsMissing ==
    \/ IsMissing(fund.fundamentals["shares_diluted_latest"])
    \/ IsMissing(fund.fundamentals["net_income_ttm"])
RevenueMissing == IsMissing(fund.fundamentals["revenue_ttm"])
EquityMissing == IsMissing(fund.fundamentals["equity_latest"])

\* C18 as stated: a ratio whose denominator is zero or null is reported as
\* null, and no division by zero is raised.
C18_MissingDenominatorGivesNull ==
    fund.pc = "done" =>
        /\ ZeroDivision \notin {fund.computed_pe, fund.computed_ps,
                                fund.computed_pb}
        /\ EpsMissing => fund.pe = NoRatio
        /\ RevenueMissing => fund.ps = NoRatio
        /\ EquityMissing => fund.pb = NoRatio

\* C18, amended: the derivation never divides by zero; a ratio whose
\* denominator is zero or null is not computed, and then the row reports
\* the quote's own pe and priceToSalesRatio (null when the quote has none)
\* and a null pb.
C18_NoDivisionByZero ==
    fund.pc = "done" =>
        /\ ZeroDivision \notin {fund.computed_pe, fund.computed_ps,
                                fund.computed_pb, fund.pe, fund.ps, fund.pb}
        /\ EpsMissing => (fund.computed_pe = NoRatio /\ fund.pe = fund.quote_pe)
        /\ RevenueMissing
             => (fund.computed_ps = NoRatio /\ fund.ps = fund.quote_ps)
        /\ EquityMissing => (fund.computed_pb = NoRatio /\ fund.pb = NoRatio)

C18_Witness ==
    /\ fund.pc = "done"
    /\ fund.fundamentals["net_income_ttm"] = 0
    /\ fund.fundamentals["shares_diluted_latest"] = 0
    /\ fund.fundamentals["revenue_ttm"] = 0
    /\ fund.price = 6
    /\ fund.market_cap = 12
    /\ fund.pe = Ratio(5, 1)
    /\ fund.pb = NoRatio

\* C33: FMP is asked for the symbol only when a credential is present and
\* the EDGAR record is missing or has None or 0.0 in one of the four
\* required fields; a record with all four fields never causes a request.
C33_SecondaryOnlyWhenNeeded ==
    fund.pc \in {"ratios", "done"} =>
        /\ fund.fmp_requested
             => /\ fund.has_key
                /\ \E f \in FundFields :
                      fund.edgar[f] = NoFloat \/ fund.edgar[f] = 0
        /\ (\A f \in FundFields : fund.edgar[f] > 0) => ~fund.fmp_requested
        /\ ~fund.has_key => ~fund.fmp_requested

\* FMP was asked because of a single zero among otherwise present fields.
C33_Witness ==
    /\ fund.pc = "done"
    /\ fund.fmp_requested
    /\ fund.edgar["equity_latest"] = 0
    /\ \A f \in FundFields \ {"equity_latest"} : fund.edgar[f] > 0

\* ========================================================================
\* Part 3: Library.  The sentiment history kept by run() of
\* scoring/run_scores.py
\* ========================================================================

PUT_CALL_HISTORY_LIMIT == 252
AAII_HISTORY_LIMIT == 104

HistoryLimit(key) ==
    IF key = "put_call_equity" THEN PUT_CALL_HISTORY_LIMIT
    ELSE AAII_HISTORY_LIMIT

\* series[-limit:] for a positive limit.
LastN(series, limit) ==
    IF Len(series) <= limit THEN series
    ELSE SubSeq(series, Len(series) - limit + 1, Len(series))

\* An append that never trims.
AppendUnlimited(series, value, limit) ==
    IF value = NoFloat THEN series ELSE Append(series, value)

\* _append_history: None is skipped; the value is appended and the series
\* is cut to its last limit entries.
_append_history(series, value, limit) ==
    IF value = NoFloat THEN series
    ELSE LET longer == Append(series, value)
         IN IF Len(longer) > limit THEN LastN(longer, limit) ELSE longer

\* The run reads sentiment_history.json and keeps the last limit numbers of
\* each series.
HistoryLoad ==
    /\ hist.pc = "idle"
    /\ hist.run < MaxHistoryRuns
    /\ hist' = [hist EXCEPT !.pc = "loaded", !.run = @ + 1,
                  !.history = [k \in HistoryKeys |->
                                 LastN(hist.file[k], HistoryLimit(k))]]
    /\ UNCHANGED otherThanHist

\* The run appends the day's put/call ratio and AAII spread; the value of
\* this run is its ordinal, and either may be missing from the sentiment
\* node (in one run of the history at most).  hist.appended records every
\* value ever appended to a series.
HistoryAppend ==
    /\ hist.pc = "loaded"
    /\ \E has_put_call \in BOOLEAN, has_aaii \in BOOLEAN :
        LET missing == ~has_put_call \/ ~has_aaii
            value == [k \in HistoryKeys |->
                        IF k = "put_call_equity"
                        THEN (IF has_put_call THEN hist.run ELSE NoFloat)
                        ELSE (IF has_aaii THEN hist.run ELSE NoFloat)]
        IN /\ missing => ~hist.missing_seen
           /\ hist' = [hist EXCEPT !.pc = "appended",
                         !.missing_seen = @ \/ missing,
                         !.history = [k \in HistoryKeys |->
                             _append_history(hist.history[k], value[k],
                                             HistoryLimit(k))],
                         !.appended = [k \in HistoryKeys |->
                             IF value[k] = NoFloat THEN hist.appended[k]
                             ELSE Append(hist.appended[k], value[k])]]
    /\ UNCHANGED otherThanHist

\* json.dump(history, f_history)
HistoryWrite ==
    /\ hist.pc = "appended"
    /\ hist' = [hist EXCEPT !.pc = "idle", !.file = hist.history,
                  !.history = [k \in HistoryKeys |-> <<>>]]
    /\ UNCHANGED otherThanHist

InitHistory ==
    /\ ResolverIdle
    /\ PipelineIdle
    /\ LibraryIdle

NextHistory ==
    \/ HistoryLoad
    \/ HistoryAppend
    \/ HistoryWrite

SpecHistory == InitHistory /\ [][NextHistory]_vars

\* ------------------------------------------------------------------------
\* Claims about the sentiment history
\* ------------------------------------------------------------------------

\* C19: the persisted put_call_equity series has at most 252 entries and
\* the aaii_bull_bear_spread series at most 104, and each persisted series
\* is the newest entries ever appended to it, in their order: when the cap
\* is exceeded the oldest entries are the ones dropped.
C19_HistoryCapped ==
    /\ Len(hist.file["put_call_equity"]) <= 252
    /\ Len(hist.file["aaii_bull_bear_spread"]) <= 104
    /\ hist.pc = "idle" =>
         /\ hist.file["put_call_equity"]
              = LastN(hist.appended["put_call_equity"], 252)
         /\ hist.file["aaii_bull_bear_spread"]
              = LastN(hist.appended["aaii_bull_bear_spread"], 104)

C19_Witness ==
    /\ hist.pc = "idle"
    /\ Len(hist.appended["put_call_equity"]) > 252
    /\ Len(hist.file["put_call_equity"]) = 252
    /\ Head(hist.file["put_call_equity"]) > 1
    /\ Len(hist.appended["aaii_bull_bear_spread"]) > 104
    /\ Len(hist.file["aaii_bull_bear_spread"]) = 104

\* ========================================================================
\* Part 3: Library.  aggregate of scoring/adaptors/sentiment.py.  Scores,
\* logarithms, z-scores and tanh are fixed-point numbers in hundredths.
\* ========================================================================

\* Entries a put_call_equity series may hold: an entry that is None, NaN or
\* infinite (NoFloat), zero, and the ratios 1 and 2.
PutCallEntries == {NoFloat, 0, 1, 2}

\* Entries an aaii_bull_bear_spread series may hold, in points.
AaiiEntries == {NoFloat, -20, 10}

SeriesOver(entries) == UNION {[1..n -> entries] : n \in 0..MaxSeriesLen}

\* _safe_series drops what is None, not a number, NaN or infinite.
_safe_series(values) == SelectSeq(values, LAMBDA v : v # NoFloat)

RECURSIVE SumSeq(_)
SumSeq(series) ==
    IF series = <<>> THEN 0 ELSE Head(series) + SumSeq(Tail(series))

RECURSIVE SumSquares(_)
SumSquares(series) ==
    IF series = <<>> THEN 0
    ELSE Head(series) * Head(series) + SumSquares(Tail(series))

RECURSIVE SqrtBetween(_, _, _)
SqrtBetween(v, lo, hi) ==
    IF lo = hi THEN lo
    ELSE LET mid == (lo + hi + 1) \div 2
         IN IF mid * mid <= v THEN SqrtBetween(v, mid, hi)
            ELSE SqrtBetween(v, lo, mid - 1)

\* The integer square root.
Sqrt(v) == SqrtBetween(v, 0, 46340)

Abs(x) == IF x < 0 THEN -x ELSE x
Sign(x) == IF x < 0 THEN -1 ELSE 1

\* _z_score: (latest - mean) / pstdev, 0.0 for fewer than two entries or a
\* zero deviation.  With n entries of sum S and sum of squares Q this is
\* (n * latest - S) / sqrt(n * Q - S * S); the result is in hundredths.
_z_score(latest, series) ==
    LET n == Len(series)
        num == n * latest - SumSeq(series)
        var == n * SumSquares(series) - SumSeq(series) * SumSeq(series)
    IN IF n <= 1 THEN 0
       ELSE IF var = 0 THEN 0
       ELSE Sign(num) * ((Abs(num) * 10000) \div Sqrt(var * 10000))

\* math.tanh of x, both in hundredths: the rational approximation
\* x (27 + x^2) / (27 + 9 x^2) up to x = 3, and 1 beyond.
Tanh(x) ==
    LET a == Abs(x)
    IN IF a >= 300 THEN Sign(x) * 100
       ELSE Sign(x) * ((a * (270000 + a * a)) \div (270000 + 9 * a * a))

\* _compress: math.tanh(value / 2)
_compress(value) == Tanh(Sign(value) * (Abs(value) \div 2))

\* math.log of a put/call ratio, in hundredths.
Log(val) == CASE val = 1 -> 0 [] val = 2 -> 69

MapSeq(f(_), series) == [i \in 1..Len(series) |-> f(series[i])]

\* _score_put_call: the z-score of the latest logarithm among the
\* logarithms of the positive entries, compressed and negated.
_score_put_call(series) ==
    LET positive == SelectSeq(series, LAMBDA val : val > 0)
        log_series == MapSeq(Log, positive)
    IN IF series = <<>> THEN 0
       ELSE IF positive = <<>> THEN 0
       ELSE -_compress(_z_score(log_series[Len(log_series)], log_series))

\* _score_aaii: the z-score of the latest spread, compressed and negated.
_score_aaii(series) ==
    IF series = <<>> THEN 0
    ELSE -_compress(_z_score(series[Len(series)], series))

_NEUTRAL_SCORE == 50

\* sum(components.values()), in hundredths.
ComponentSum(components) == SumSeq([i \in 1..Len(components) |-> components[i].value])

\* A score that adds the components up and is not bounded.
ScoreOfSum(components) ==
    _NEUTRAL_SCORE * 100 + 50 * ComponentSum(components)

\* score = max(0.0, min(100.0, _NEUTRAL_SCORE + 50.0 * combined)) with
\* combined the mean of the components; in hundredths of a point.
CompositeScore(components) ==
    LET raw == _NEUTRAL_SCORE * 100
                 + (50 * ComponentSum(components)) \div Len(components)
        capped == IF raw > 10000 THEN 10000 ELSE raw
    IN IF capped < 0 THEN 0 ELSE capped

\* aggregate is called with a sentiment node and a history.
AggStart ==
    /\ agg.pc = "idle"
    /\ \E put_call \in SeriesOver(PutCallEntries),
          aaii \in SeriesOver(AaiiEntries),
          has_put_call \in BOOLEAN, has_aaii \in BOOLEAN :
        agg' = [AggIdle EXCEPT !.pc = "components",
                  !.has_put_call = has_put_call, !.has_aaii = has_aaii,
                  !.history = [k \in HistoryKeys |->
                                 IF k = "put_call_equity" THEN put_call
                                 ELSE aaii]]
    /\ UNCHANGED otherThanAgg

\* A signal counted whatever its series holds.
AvailableByNode(series, has_node) == has_node

\* "if put_call_series and isinstance(put_call_data, Mapping)": a signal is
\* available when its cleaned series is not empty and its node entry is a
\* mapping.
Available(series, has_node) == series # <<>> /\ has_node

\* A result that is a neutral 50 when nothing is available.
AggregateResultNeutral(components) ==
    IF components = <<>> THEN [score |-> 5000, components |-> <<>>]
    ELSE [score |-> CompositeScore(components), components |-> <<>>]

\* "if not components: return None", else the SentimentResult with its
\* score and the components rescaled to 0..100.
AggregateResult(components) ==
    IF components = <<>> THEN NoResult
    ELSE [score |-> CompositeScore(components),
          components |->
             [i \in 1..Len(components) |->
                [name |-> components[i].name,
                 value |-> 5000 + 50 * components[i].value]]]

\* The component of each available signal; components are kept in
\* insertion order.
AggComponents ==
    /\ agg.pc = "components"
    /\ LET put_call_series == _safe_series(agg.history["put_call_equity"])
           aaii_series == _safe_series(agg.history["aaii_bull_bear_spread"])
           first == IF Available(put_call_series, agg.has_put_call)
                    THEN <<[name |-> "put_call",
                            value |-> _score_put_call(put_call_series)]>>
                    ELSE <<>>
           second == IF Available(aaii_series, agg.has_aaii)
                     THEN <<[name |-> "aaii",
                             value |-> _score_aaii(aaii_series)]>>
                     ELSE <<>>
       IN agg' = [agg EXCEPT !.pc = "combine",
                    !.components = first \o second]
    /\ UNCHANGED otherThanAgg

\* None without components, else the SentimentResult.
AggReturn ==
    /\ agg.pc = "combine"
    /\ agg' = [agg EXCEPT !.pc = "done",
                 !.result = AggregateResult(agg.components)]
    /\ UNCHANGED otherThanAgg

InitAggregate ==
    /\ ResolverIdle
    /\ PipelineIdle
    /\ LibraryIdle

NextAggregate ==
    \/ AggStart
    \/ AggComponents
    \/ AggReturn

SpecAggregate == InitAggregate /\ [][NextAggregate]_vars

\* ------------------------------------------------------------------------
\* Claims about aggregate
\* ------------------------------------------------------------------------

\* C20: whatever the history and the sentiment node, a result of aggregate
\* that is not None carries a composite score within [0, 100] (0 to 10000
\* hundredths).
C20_ScoreWithinRange ==
    (agg.pc = "done" /\ agg.result # NoResult) =>
        (agg.result.score >= 0 /\ agg.result.score <= 10000)

C20_Witness ==
    /\ agg.pc = "done"
    /\ agg.result # NoResult
    /\ Len(agg.components) = 2
    /\ agg.components[1].value < 0
    /\ agg.components[2].value < 0
    /\ agg.result.score < 5000

\* The z-score _score_put_call takes of the series aggregate was given: the
\* latest logarithm against the logarithms of the positive entries.
PutCallLogSeries ==
    MapSeq(Log, SelectSeq(_safe_series(agg.history["put_call_equity"]),
                          LAMBDA val : val > 0))

PutCallZ ==
    IF PutCallLogSeries = <<>> THEN 0
    ELSE _z_score(PutCallLogSeries[Len(PutCallLogSeries)], PutCallLogSeries)

\* The put/call component of the result is the first one when there is one.
HasPutCallComponent ==
    /\ agg.pc = "done"
    /\ agg.components # <<>>
    /\ agg.components[1].name = "put_call"

\* C21: when the latest put/call value is elevated above the rest of the
\* series (log z-score above 0) the put/call contribution is positive, and
\* a composite made of it alone is above 50.
C21_ElevatedPutCallIsBullish ==
    (HasPutCallComponent /\ PutCallZ > 0) =>
        /\ agg.components[1].value > 0
        /\ Len(agg.components) = 1 => agg.result.score > 5000

\* The components aggregate computed for a signal (none or one).
ComponentsNamed(name) ==
    {agg.components[i].value :
        i \in {j \in 1..Len(agg.components) : agg.components[j].name = name}}

\* The cleaned series of the two signals and the presence of their node
\* entries.
CleanPutCall == _safe_series(agg.history["put_call_equity"])
CleanAaii == _safe_series(agg.history["aaii_bull_bear_spread"])

\* C22 as stated: a signal whose series has length 0 or 1 is in the
\* composite mean with a contribution of exactly 0.
C22_ShortSeriesContributesZero ==
    agg.pc = "done" =>
        /\ (agg.has_put_call /\ Len(CleanPutCall) <= 1)
             => ComponentsNamed("put_call") = {0}
        /\ (agg.has_aaii /\ Len(CleanAaii) <= 1)
             => ComponentsNamed("aaii") = {0}

\* C22, amended: a signal whose cleaned series has exactly one entry is in
\* the composite mean with a contribution of exactly 0, so that it halves
\* the other signal's contribution; a signal whose cleaned series is empty
\* is left out of the mean; neither case fails.
C22_SingleEntryContributesZero ==
    agg.pc = "done" =>
        /\ (agg.has_put_call /\ Len(CleanPutCall) = 1)
             => ComponentsNamed("put_call") = {0}
        /\ (agg.has_aaii /\ Len(CleanAaii) = 1)
             => ComponentsNamed("aaii") = {0}
        /\ Len(CleanPutCall) = 0 => ComponentsNamed("put_call") = {}
        /\ Len(CleanAaii) = 0 => ComponentsNamed("aaii") = {}
        /\ \A c \in ComponentsNamed("aaii") :
             /\ ComponentsNamed("put_call") = {0}
                  => agg.result.score = 5000 + (50 * c) \div 2
             /\ ComponentsNamed("put_call") = {}
                  => agg.result.score = 5000 + 50 * c

C22_Witness ==
    /\ agg.pc = "done"
    /\ agg.has_put_call
    /\ Len(CleanPutCall) = 1
    /\ ComponentsNamed("put_call") = {0}
    /\ \E c \in ComponentsNamed("aaii") : c < 0
    /\ agg.result.score > 2700

\* No signal is available: each signal lacks entries in its cleaned series
\* or lacks its entry in the sentiment node.
NoSignalAvailable ==
    /\ (Len(CleanPutCall) = 0 \/ ~agg.has_put_call)
    /\ (Len(CleanAaii) = 0 \/ ~agg.has_aaii)

\* C23: aggregate returns None, and not a result with a neutral score,
\* exactly when no signal is available.
C23_NoneIffNoSignal ==
    agg.pc = "done" => (agg.result = NoResult <=> NoSignalAvailable)

C23_Witness ==
    /\ agg.pc = "done"
    /\ agg.result = NoResult
    /\ agg.has_put_call
    /\ Len(CleanPutCall) = 0
    /\ ~agg.has_aaii
    /\ Len(CleanAaii) > 0

\* ========================================================================
\* Part 3: Library.  The sentiment part of run() of scoring/run_scores.py:
\* the history is loaded, the day's readings are appended, aggregate scores
\* the node against the history, and the history is written.
\* ========================================================================

\* The sentiment nodes of a raw market document: each entry is absent, a
\* mapping without a usable reading, or a mapping with a reading.
SentimentNodes ==
    {n \in [has_put_call : BOOLEAN, put_call : {NoFloat, 1, 2},
            has_aaii : BOOLEAN, aaii : {NoFloat, -20, 10}] :
        /\ ~n.has_put_call => n.put_call = NoFloat
        /\ ~n.has_aaii => n.aaii = NoFloat}

\* The reading of the node for a series: _coerce_float of the entry's
\* field, None when the entry is not a mapping.
Reading(node, key) ==
    IF key = "put_call_equity"
    THEN (IF node.has_put_call THEN node.put_call ELSE NoFloat)
    ELSE (IF node.has_aaii THEN node.aaii ELSE NoFloat)

\* The document and the trading day of the next run: the raw market
\* document of a new trading day, or, for a run with --force on the day of
\* the run before, that day's document again.
NextRuns ==
    [node : SentimentNodes, day : {sr.day + 1}]
    \cup (IF sr.run > 0 THEN {[node |-> sr.node, day |-> sr.day]} ELSE {})

\* A run starts on a raw market document and loads the stored history.
SrLoad ==
    /\ sr.pc = "idle"
    /\ sr.run < MaxSentimentRuns
    /\ \E next \in NextRuns :
        sr' = [sr EXCEPT !.pc = "loaded", !.run = @ + 1,
                 !.node = next.node, !.day = next.day,
                 !.rerun = (next.day = sr.day),
                 !.loaded = [k \in HistoryKeys |->
                               LastN(sr.file[k], HistoryLimit(k))],
                 !.history = [k \in HistoryKeys |->
                                LastN(sr.file[k], HistoryLimit(k))],
                 !.components = <<>>, !.result = NoResult]
    /\ UNCHANGED otherThanSr

\* The readings of the node are appended to the history.
SrAppend ==
    /\ sr.pc = "loaded"
    /\ sr' = [sr EXCEPT !.pc = "appended",
                !.history = [k \in HistoryKeys |->
                    _append_history(sr.history[k], Reading(sr.node, k),
                                    HistoryLimit(k))]]
    /\ UNCHANGED otherThanSr

\* sentiment_result = sentiment_adaptor.aggregate(sentiment_node, history)
SrScore ==
    /\ sr.pc = "appended"
    /\ LET put_call_series == _safe_series(sr.history["put_call_equity"])
           aaii_series == _safe_series(sr.history["aaii_bull_bear_spread"])
           first == IF Available(put_call_series, sr.node.has_put_call)
                    THEN <<[name |-> "put_call",
                            value |-> _score_put_call(put_call_series)]>>
                    ELSE <<>>
           second == IF Available(aaii_series, sr.node.has_aaii)
                     THEN <<[name |-> "aaii",
                             value |-> _score_aaii(aaii_series)]>>
                     ELSE <<>>
       IN sr' = [sr EXCEPT !.pc = "scored",
                   !.components = first \o second,
                   !.result = AggregateResult(first \o second)]
    /\ UNCHANGED otherThanSr

\* json.dump(history, f_history); `first` keeps what the first run of the
\* trading day wrote.
SrWrite ==
    /\ sr.pc = "scored"
    /\ sr' = [sr EXCEPT !.pc = "idle", !.file = sr.history,
                        !.first = IF sr.rerun THEN @ ELSE sr.history]
    /\ UNCHANGED otherThanSr

InitSentimentRun ==
    /\ ResolverIdle
    /\ PipelineIdle
    /\ LibraryIdle

NextSentimentRun ==
    \/ SrLoad
    \/ SrAppend
    \/ SrScore
    \/ SrWrite

SpecSentimentRun == InitSentimentRun /\ [][NextSentimentRun]_vars

\* ------------------------------------------------------------------------
\* Claims about the sentiment part of a scoring run
\* ------------------------------------------------------------------------

\* The series a component of the run was scored against.
SeriesOfComponent(name) ==
    IF name = "put_call" THEN "put_call_equity" ELSE "aaii_bull_bear_spread"

\* C24: whenever a signal contributes to the composite of a run,
\* the last element of the series it was scored against is that run's
\* reading for the signal.
C24_ScoredAgainstCurrentReading ==
    sr.pc = "scored" =>
        \A i \in 1..Len(sr.components) :
            LET key == SeriesOfComponent(sr.components[i].name)
            IN /\ Reading(sr.node, key) # NoFloat
               /\ sr.history[key][Len(sr.history[key])] = Reading(sr.node, key)

\* C32: a run with --force on the trading day of the run before leaves
\* each series of the sentiment history as the first run of that day
\* wrote it: a trading day contributes at most one observation per signal.
C32_OneObservationPerDay ==
    (sr.pc = "idle" /\ sr.run > 0) => sr.file = sr.first

\* ------------------------------------------------------------------------
\* A further claim about the Provider Resolver (checked under SpecResolver)
\* ------------------------------------------------------------------------

\* What a finished resolution hands to its caller, from which the status
\* entry is written: the snapshot's source when a provider answered, the
\* error text when all failed.
ResolverReport ==
    IF aq_pc = "returned" THEN aq_result.source
    ELSE IF aq_pc = "raised" THEN aq_detail
    ELSE <<>>

\* C25: every provider attempt of a finished resolution is visible to the
\* status report: each provider that failed is named in what the resolver
\* hands back, also when a later provider of the chain answered.
C25_EveryFailureVisible ==
    aq_pc \in {"returned", "raised"} =>
        \A j \in 1..Len(outcomes) :
            ~outcomes[j].ok =>
                \E t \in 1..Len(ResolverReport) : ResolverReport[t] = invoked[j]

\* ------------------------------------------------------------------------
\* A further claim about the ETL run (checked under SpecAcquire)
\* ------------------------------------------------------------------------

\* The acquisition reported a failure.
Failed(name) ==
    \E i \in DOMAIN etl.statuses : etl.statuses[i] = Status(name, FALSE)

Announced(name) ==
    \E i \in DOMAIN etl.statuses : etl.statuses[i] = Status(name, TRUE)

\* C26: once the acquisitions are over, every required acquisition that
\* failed has a value in the document: the simulated market or BTC theme,
\* or the previous run's reading announced by a *_fallback status entry;
\* no failed acquisition leaves its section of the document empty.
C26_FailureLeavesValue ==
    etl.pc \in {"write_market", "write_events", "write_status",
                "touch_marker", "record_completed"} =>
        /\ Failed("market") => etl.market = "simulated"
        /\ Failed("hongkong_HSI") => etl.hk
        /\ Failed("cboe_put_call")
             => (etl.put_call = "stale" /\ Announced("cboe_put_call_fallback"))
        /\ Failed("aaii_sentiment")
             => (etl.aaii = "stale" /\ Announced("aaii_sentiment_fallback"))
        /\ (Failed("coinbase_spot") \/ Failed("okx_funding")
              \/ Failed("okx_basis"))
             => etl.btc = "simulated"
        /\ Failed("btc_etf_flow")
             => \/ etl.btc = "simulated"
                \/ (etl.etf_flow = "stale" /\ Announced("btc_etf_flow_fallback"))

\* ========================================================================
\* Part 3: Library.  The degraded flag across the steps of one trading
\* day: run() of etl/run_fetch.py writes etl_status.json, run() of
\* scoring/run_scores.py computes degraded and writes scores.json, run() of
\* digest/make_daily.py records the flag.  Each step is taken as a whole.
\* ========================================================================

\* A digest flag that looks at --degraded alone.
DigestDegradedByFlag(scores_degraded, flag) == flag

\* degraded = bool(scores.get("degraded")) or args.degraded
DigestDegraded(scores_degraded, flag) == scores_degraded \/ flag

\* The ETL step completes: raw_market.json and etl_status.json are written,
\* the status with the ok of this run.
DgEtl ==
    /\ dg.steps < MaxPipelineSteps
    /\ \E ok \in BOOLEAN :
        dg' = [dg EXCEPT !.steps = @ + 1, !.last = "etl",
                 !.market = [state |-> "ok"],
                 !.status = [state |-> "ok", ok |-> ok]]
    /\ UNCHANGED otherThanDg

\* The scoring step: skipped over a done marker, aborted under STRICT, or
\* scores.json, actions.json and the marker are written.
DgScoring ==
    /\ dg.steps < MaxPipelineSteps
    /\ \E force \in BOOLEAN, strict \in BOOLEAN :
        LET degraded == Degraded(dg.status, dg.market)
            base == [dg EXCEPT !.steps = @ + 1, !.last = "scoring",
                               !.force = force, !.strict = strict]
        IN dg' =
             IF Exists(dg.marker) /\ ~force
             THEN [base EXCEPT !.outcome = "cached-skip", !.exit = 0,
                     !.meta_scoring = [state |-> "cached"]]
             ELSE IF StrictAbort(degraded, strict)
             THEN [base EXCEPT !.outcome = "failed", !.exit = 2,
                     !.meta_scoring = [state |-> "failed", degraded |-> TRUE]]
             ELSE [base EXCEPT !.outcome = "completed", !.exit = 0,
                     !.scores = [state |-> "ok", degraded |-> degraded],
                     !.actions = [state |-> "ok"],
                     !.marker = [state |-> "ok"],
                     !.meta_scoring = [state |-> "completed",
                                       degraded |-> degraded]]
    /\ UNCHANGED otherThanDg

\* The digest step: _load_json(scores.json) raises when the file is
\* missing; otherwise the step records degraded.
DgDigest ==
    /\ dg.steps < MaxPipelineSteps
    /\ \E flag \in BOOLEAN :
        LET base == [dg EXCEPT !.steps = @ + 1, !.last = "digest",
                               !.flag = flag]
        IN dg' =
             IF ~Exists(dg.scores)
             THEN [base EXCEPT !.outcome = "raised", !.exit = 1]
             ELSE [base EXCEPT !.outcome = "completed", !.exit = 0,
                     !.meta_digest =
                        [state |-> "completed",
                         degraded |-> DigestDegraded(dg.scores.degraded, flag)]]
    /\ UNCHANGED otherThanDg

InitDegraded ==
    /\ ResolverIdle
    /\ PipelineIdle
    /\ LibraryIdle

NextDegraded ==
    \/ DgEtl
    \/ DgScoring
    \/ DgDigest

SpecDegraded == InitDegraded /\ [][NextDegraded]_vars

\* ------------------------------------------------------------------------
\* Claims about the degraded flag
\* ------------------------------------------------------------------------

\* etl_status.json says ok = false, or raw_market.json is missing.
AcquisitionDegraded ==
    \/ (dg.status.state = "ok" /\ ~dg.status.ok)
    \/ dg.market = Absent

\* C27 as stated: whenever etl_status.json has ok = false or the market
\* document is missing, a scoring step leaves scores.json with degraded =
\* true and a digest step records degraded = true, with or without
\* --degraded.
C27_DegradedAlwaysFlagged ==
    AcquisitionDegraded =>
        /\ dg.last = "scoring"
             => (Exists(dg.scores) /\ dg.scores.degraded)
        /\ dg.last = "digest"
             => (Exists(dg.meta_digest) /\ dg.meta_digest.degraded)

\* C27, amended: whenever etl_status.json has ok = false or the market
\* document is missing, a scoring step that is neither skipped over the
\* done marker nor aborted under STRICT writes scores.json with degraded =
\* true; under STRICT it writes nothing, returns 2 and records the step as
\* failed with degraded = true; a digest step records degraded = true
\* whenever the scores.json it reads says so or --degraded is passed, and
\* records nothing when scores.json is missing.
C27_DegradedFlaggedWhenScored ==
    /\ (AcquisitionDegraded /\ dg.last = "scoring") =>
         /\ dg.outcome = "completed"
              => (Exists(dg.scores) /\ dg.scores.degraded)
         /\ dg.outcome = "failed"
              => /\ dg.strict
                 /\ dg.exit = 2
                 /\ dg.meta_scoring = [state |-> "failed", degraded |-> TRUE]
         /\ dg.outcome = "cached-skip" => (Exists(dg.marker) /\ ~dg.force)
    /\ (dg.last = "digest" /\ dg.outcome = "completed") =>
         /\ Exists(dg.scores)
         /\ dg.meta_digest.degraded = (dg.scores.degraded \/ dg.flag)
    /\ (dg.last = "digest" /\ dg.outcome = "raised") => ~Exists(dg.scores)

C27_Witness ==
    /\ dg.last = "digest"
    /\ dg.outcome = "completed"
    /\ dg.status.state = "ok"
    /\ ~dg.status.ok
    /\ dg.scores.degraded
    /\ ~dg.flag
    /\ dg.meta_digest.degraded

\* ------------------------------------------------------------------------
\* A further claim about the scoring step (checked under Spec)
\* ------------------------------------------------------------------------

\* C28: scoring is idempotent per trading day.  An invocation without
\* --force that finds the day's done marker returns 0 having written
\* neither scores.json nor actions.json nor the marker; an invocation with
\* --force is never skipped, and when it completes scores.json and
\* actions.json are those it wrote and the marker holds the trading day.
C28_ScoringIdempotent ==
    /\ (/\ sc.pc \notin {"idle", "check"}
        /\ ~sc.force
        /\ Exists(sc.fs0.done_markers[sc.day]))
       => /\ sc.pc = "done"
          /\ sc.outcome = "cached-skip"
          /\ sc.exit = 0
          /\ fs.scores = sc.fs0.scores
          /\ fs.actions = sc.fs0.actions
          /\ fs.done_markers = sc.fs0.done_markers
    /\ (sc.pc # "idle" /\ sc.force)
       => /\ sc.outcome # "cached-skip"
          /\ sc.outcome = "completed"
               => /\ sc.exit = 0
                  /\ fs.scores.state = "ok" /\ fs.scores.run = sc.run
                  /\ fs.actions.state = "ok" /\ fs.actions.run = sc.run
                  /\ fs.done_markers[sc.day]
                       = [state |-> "ok", content |-> sc.day]

\* A forced invocation over an existing marker has recomputed.
C28_Witness ==
    /\ sc.pc = "done"
    /\ sc.force
    /\ Exists(sc.fs0.done_markers[sc.day])
    /\ sc.outcome = "completed"
    /\ sc.fs0.scores.run # sc.run
    /\ fs.scores.run = sc.run

\* ------------------------------------------------------------------------
\* Further claims about _request_json (checked under SpecRequest)
\* ------------------------------------------------------------------------

\* The request just made was answered with an error status outside the
\* policy's status_forcelist.
NonRetryableErrorAnswered ==
    /\ req.pc = "loop"
    /\ req'.error.status_code # 0
    /\ req'.error.status_code \notin req.status_forcelist

\* C29: a response with an error status outside the policy's retryable set
\* makes _request_json fail at once: that one request, no sleep, no further
\* turn of the loop, and an error that carries the status code and the
\* first characters of the response body.
C29_NonRetryableFailsAtOnce ==
    [][NonRetryableErrorAnswered =>
         /\ req'.pc = "done"
         /\ req'.outcome = "raised"
         /\ req'.attempt = req.attempt + 1
         /\ req'.last = req.last
         /\ req'.elapsed = req.elapsed + req'.request_time
         /\ req'.error.kind = "status_error"
         /\ raise_for_status(req'.error.status_code)
         /\ req'.error.body_len > 0
              => /\ req'.error.snippet.of = "body"
                 /\ req'.error.snippet.len <= SnippetLimit
                 /\ req'.error.snippet.len <= req'.error.body_len
                 /\ req'.error.body_len <= SnippetLimit
                      => req'.error.snippet.len = req'.error.body_len]_vars

\* A 404 with a long body has ended a call that had already retried.
C29_Witness ==
    /\ req.pc = "done"
    /\ req.attempt > 1
    /\ req.error.kind = "status_error"
    /\ req.error.status_code = 404
    /\ req.error.body_len > SnippetLimit
    /\ req.error.snippet = [of |-> "body", len |-> SnippetLimit]

Today     == "D2"
Yesterday == "D1"

\* out/ as a completed run of the day before left it (state/fetch_D1 is
\* another file than today's marker).
CcPriorDay ==
    [CcIdle EXCEPT
       !.market = [state |-> "ok", date |-> Yesterday, run |-> 0],
       !.events = [state |-> "ok", date |-> Yesterday, run |-> 0],
       !.status = [state |-> "ok", date |-> Yesterday, run |-> 0]]

\* skip_run of run() as invocation p computes it from the files it finds.
CcSkipRun ==
    /\ cc.marker
    /\ Exists(cc.market) /\ Exists(cc.events) /\ Exists(cc.status)
    /\ cc.status.state = "ok"
    /\ cc.status.date = Today

\* The file an invocation writes.
CcFile(p) == [state |-> "ok", date |-> Today, run |-> p]

\* run() is entered: --force is parsed, the trading day computed.
CcInvoke(p) ==
    /\ cc.proc[p].pc = "idle"
    /\ \E force \in BOOLEAN :
        cc' = [cc EXCEPT !.proc[p].pc = "check", !.proc[p].force = force]
    /\ UNCHANGED otherThanCc

\* if not args.force: ... if skip_run: record "cached", return 0.
CcSkipCached(p) ==
    /\ cc.proc[p].pc = "check"
    /\ ~cc.proc[p].force
    /\ CcSkipRun
    /\ cc' = [cc EXCEPT !.proc[p].pc = "done",
                        !.proc[p].outcome = "cached-skip"]
    /\ UNCHANGED otherThanCc

\* No skip: the invocation goes on to etl_execute.
CcExecute(p) ==
    /\ cc.proc[p].pc = "check"
    /\ cc.proc[p].force \/ ~CcSkipRun
    /\ cc' = [cc EXCEPT !.proc[p].pc = "acquire"]
    /\ UNCHANGED otherThanCc

\* The acquisition calls of run(), up to the payloads.
CcAcquire(p) ==
    /\ cc.proc[p].pc = "acquire"
    /\ cc' = [cc EXCEPT !.proc[p].pc = "write_market"]
    /\ UNCHANGED otherThanCc

\* json.dump(market_payload) into raw_market.json.
CcWriteRawMarket(p) ==
    /\ cc.proc[p].pc = "write_market"
    /\ cc' = [cc EXCEPT !.proc[p].pc = "write_events", !.market = CcFile(p)]
    /\ UNCHANGED otherThanCc

\* json.dump({"events": ..., "ai_updates": ...}) into raw_events.json.
CcWriteRawEvents(p) ==
    /\ cc.proc[p].pc = "write_events"
    /\ cc' = [cc EXCEPT !.proc[p].pc = "write_status", !.events = CcFile(p)]
    /\ UNCHANGED otherThanCc

\* json.dump(status_payload) into etl_status.json.
CcWriteStatus(p) ==
    /\ cc.proc[p].pc = "write_status"
    /\ cc' = [cc EXCEPT !.proc[p].pc = "touch_marker", !.status = CcFile(p)]
    /\ UNCHANGED otherThanCc

\* marker.touch(exist_ok=True), record "completed", return 0.
CcTouchMarker(p) ==
    /\ cc.proc[p].pc = "touch_marker"
    /\ cc' = [cc EXCEPT !.proc[p].pc = "done",
                        !.proc[p].outcome = "completed",
                        !.marker = TRUE]
    /\ UNCHANGED otherThanCc

InitConcurrent ==
    /\ ResolverIdle
    /\ PipelineIdle
    /\ req = ReqIdle /\ fund = FundIdle /\ hist = HistIdle /\ agg = AggIdle
    /\ sr = SrIdle /\ dg = DgIdle /\ ef = EfIdle /\ yh = YhIdle
    /\ ed = EdIdle /\ cl = ClIdle
    /\ cc \in {CcIdle, CcPriorDay}

NextConcurrent ==
    \E p \in Invocations :
        \/ CcInvoke(p)
        \/ CcSkipCached(p)
        \/ CcExecute(p)
        \/ CcAcquire(p)
        \/ CcWriteRawMarket(p)
        \/ CcWriteRawEvents(p)
        \/ CcWriteStatus(p)
        \/ CcTouchMarker(p)

SpecConcurrent == InitConcurrent /\ [][NextConcurrent]_vars

\* Invocation p is between its skip decision and its marker.
CcExecuting(p) ==
    cc.proc[p].pc \in {"acquire", "write_market", "write_events",
                       "write_status", "touch_marker"}

\* C31: two invocations without --force for one trading day never execute
\* acquisition side by side, and once both have ended raw_market.json,
\* raw_events.json and etl_status.json are the files of one invocation.
C31_SingleInvocationAcquires ==
    (\A p \in Invocations : ~cc.proc[p].force) =>
        /\ ~(CcExecuting(1) /\ CcExecuting(2))
        /\ (\A p \in Invocations : cc.proc[p].pc = "done")
             => /\ cc.market.run = cc.events.run
                /\ cc.events.run = cc.status.run

\* ========================================================================
\* Part 5: The values derived from one EDGAR fact: _edgar_ttm_from_fact,
\* _edgar_latest_quarter_value, _edgar_latest_instant
\* ========================================================================

EDGAR_ALLOWED_FORMS ==
    {"10-Q", "10-Q/A", "10-K", "10-K/A", "20-F", "40-F", "6-K", "6-K/A"}

\* One entry of a fact: end is the day number of the period end (0 where
\* the entry has none), val is NoFloat where it is no number, duration is
\* the days from start to end (0 where the entry has no start).
FactEntry(end, val, form, fp, duration) ==
    [end |-> end, val |-> val, form |-> form, fp |-> fp,
     duration |-> duration]

\* The entries a fact is made of: quarters marked by fp or by their
\* duration, two of them with the same period end; a year with and one
\* without start; an 8-K; an entry without number.
FactEntries ==
    {FactEntry(1, 1, "10-Q", "Q1", 90),
     FactEntry(1, 2, "10-Q/A", "Q1", 90),
     FactEntry(2, 10, "10-Q", "", 91),
     FactEntry(3, 100, "6-K", "Q3", 270),
     FactEntry(2, 1000, "10-K", "FY", 365),
     FactEntry(4, 2000, "20-F", "FY", 0),
     FactEntry(5, 5000, "8-K", "Q4", 90),
     FactEntry(5, NoFloat, "10-Q", "Q4", 90)}

\* "end is None or val is None or form not in EDGAR_ALLOWED_FORMS"
Skipped(entry) ==
    entry.end = 0 \/ entry.val = NoFloat \/ entry.form \notin EDGAR_ALLOWED_FORMS

\* fp.startswith("Q")
QuarterMarked(entry) == entry.fp \in {"Q1", "Q2", "Q3", "Q4"}

\* The entry goes to the list `quarterly` of _edgar_ttm_from_fact.
IsQuarterly(entry) ==
    \/ QuarterMarked(entry)
    \/ entry.duration # 0 /\ 70 <= entry.duration /\ entry.duration <= 100

\* One entry is put into a list sorted by end, latest first, behind the
\* entries of the same end.
RECURSIVE InsertByEnd(_, _)
InsertByEnd(sorted, entry) ==
    IF sorted = <<>> THEN <<entry>>
    ELSE IF Head(sorted).end >= entry.end
         THEN <<Head(sorted)>> \o InsertByEnd(Tail(sorted), entry)
         ELSE <<entry>> \o sorted

\* list.sort(key=lambda item: item[0], reverse=True): latest end first,
\* entries of the same end in the order they had.
RECURSIVE SortByEndDesc(_)
SortByEndDesc(entries) ==
    IF entries = <<>> THEN <<>>
    ELSE InsertByEnd(SortByEndDesc(SubSeq(entries, 1, Len(entries) - 1)),
                     entries[Len(entries)])

\* sum(val for _, val in items)
RECURSIVE SumVal(_)
SumVal(entries) ==
    IF entries = <<>> THEN 0 ELSE Head(entries).val + SumVal(Tail(entries))

\* A trailing-twelve-month value that prefers the annual observation.
TtmAnnualFirst(entries) ==
    LET quarter(e) == ~Skipped(e) /\ IsQuarterly(e)
        year(e) == ~Skipped(e) /\ ~IsQuarterly(e)
        quarterly == SortByEndDesc(SelectSeq(entries, quarter))
        annual == SortByEndDesc(SelectSeq(entries, year))
    IN IF annual # <<>> THEN annual[1].val
       ELSE IF quarterly # <<>> THEN SumVal(quarterly)
       ELSE NoFloat

_edgar_ttm_from_fact(entries) ==
    LET quarter(e) == ~Skipped(e) /\ IsQuarterly(e)
        year(e) == ~Skipped(e) /\ ~IsQuarterly(e)
        quarterly == SortByEndDesc(SelectSeq(entries, quarter))
        annual == SortByEndDesc(SelectSeq(entries, year))
    IN IF Len(quarterly) >= 4 THEN SumVal(SubSeq(quarterly, 1, 4))
       ELSE IF annual # <<>> THEN annual[1].val
       ELSE IF quarterly # <<>> THEN SumVal(quarterly)
       ELSE NoFloat

_edgar_latest_quarter_value(entries) ==
    LET quarter(e) == ~Skipped(e) /\ QuarterMarked(e)
        valued(e) == e.val # NoFloat /\ e.end # 0
        quarterly == SortByEndDesc(SelectSeq(entries, quarter))
        fallback == SortByEndDesc(SelectSeq(entries, valued))
    IN IF quarterly # <<>> THEN quarterly[1].val
       ELSE IF fallback # <<>> THEN fallback[1].val
       ELSE NoFloat

_edgar_latest_instant(entries) ==
    LET usable(e) == ~Skipped(e)
        instants == SortByEndDesc(SelectSeq(entries, usable))
    IN IF instants # <<>> THEN instants[1].val ELSE NoFloat

\* The entries of the fact arrive: _edgar_collect_entries.
EfCollect ==
    /\ ef.pc = "idle"
    /\ \E n \in 0..MaxFactEntries :
        \E entries \in [1..n -> FactEntries] :
            ef' = [ef EXCEPT !.pc = "collected", !.entries = entries]
    /\ UNCHANGED otherThanEf

\* The three values _extract_edgar_metrics derives from facts.
EfExtract ==
    /\ ef.pc = "collected"
    /\ ef' = [ef EXCEPT !.pc = "done",
                !.ttm = _edgar_ttm_from_fact(ef.entries),
                !.latest_quarter = _edgar_latest_quarter_value(ef.entries),
                !.latest_instant = _edgar_latest_instant(ef.entries)]
    /\ UNCHANGED otherThanEf

InitFact ==
    /\ ResolverIdle
    /\ PipelineIdle
    /\ LibraryIdle

NextFact ==
    \/ EfCollect
    \/ EfExtract

SpecFact == InitFact /\ [][NextFact]_vars

\* Positions of the usable quarterly and annual observations of the fact.
QuarterlyAt ==
    {i \in 1..Len(ef.entries) :
        ~Skipped(ef.entries[i]) /\ IsQuarterly(ef.entries[i])}
AnnualAt ==
    {i \in 1..Len(ef.entries) :
        ~Skipped(ef.entries[i]) /\ ~IsQuarterly(ef.entries[i])}

\* The sum of the values at a set of positions.
RECURSIVE SumAt(_)
SumAt(positions) ==
    IF positions = {} THEN 0
    ELSE LET i == CHOOSE j \in positions : TRUE
         IN ef.entries[i].val + SumAt(positions \ {i})

\* No position outside `chosen` has a later end than one inside it.
MostRecent(chosen, among) ==
    \A i \in chosen, j \in among \ chosen :
        ef.entries[j].end <= ef.entries[i].end

\* C34: the trailing-twelve-month value is the sum of the four quarterly
\* observations with the most recent period ends when there are at least
\* four; otherwise the latest annual value when there is one; otherwise
\* the sum of the quarterly observations there are; otherwise null.
C34_TrailingTwelveMonths ==
    ef.pc = "done" =>
        IF Cardinality(QuarterlyAt) >= 4
        THEN \E chosen \in SUBSET QuarterlyAt :
                /\ Cardinality(chosen) = 4
                /\ MostRecent(chosen, QuarterlyAt)
                /\ ef.ttm = SumAt(chosen)
        ELSE IF AnnualAt # {}
        THEN \E i \in AnnualAt :
                /\ MostRecent({i}, AnnualAt)
                /\ ef.ttm = ef.entries[i].val
        ELSE IF QuarterlyAt # {}
        THEN ef.ttm = SumAt(QuarterlyAt)
        ELSE ef.ttm = NoFloat

\* Five quarterly observations and a year: the four latest quarters count.
C34_Witness ==
    /\ ef.pc = "done"
    /\ Cardinality(QuarterlyAt) = 5
    /\ \E i, j \in QuarterlyAt : ef.entries[i].end < ef.entries[j].end
    /\ ef.entries[1].end < ef.entries[5].end
    /\ ef.ttm # SumAt(QuarterlyAt)

\* Positions of the dated observations whose filing type is allowed.
AllowedAt == {i \in 1..Len(ef.entries) : ~Skipped(ef.entries[i])}

\* `value` is the value of a most recent dated observation of an allowed
\* filing type, null when there is none.
IsLatestAllowed(value) ==
    IF AllowedAt = {} THEN value = NoFloat
    ELSE \E i \in AllowedAt :
            /\ MostRecent({i}, AllowedAt)
            /\ value = ef.entries[i].val

\* C35: equity (_edgar_latest_instant) and the diluted share count
\* (_edgar_latest_quarter_value) are each the value of the most recent
\* dated observation among those of an allowed filing type, whatever its
\* duration or quarter marker; no other filing type is ever selected.
C35_LatestAllowedObservation ==
    ef.pc = "done" =>
        /\ IsLatestAllowed(ef.latest_instant)
        /\ IsLatestAllowed(ef.latest_quarter)

\* ------------------------------------------------------------------------
\* A claim about the order of the chain (checked under SpecResolver)
\* ------------------------------------------------------------------------

\* The label under which the provider named by a QUOTE_ORDER entry is tried.
LabelOf(name) == IF name = "financial_modeling_prep" THEN "fmp" ELSE name

\* The provider named by a QUOTE_ORDER entry can be asked for a quote of
\* the class: it serves the class and its credentials are present (Yahoo:
\* it is not switched off).
ProviderAvailable(kind, name) ==
    CASE name = "stooq" -> TRUE
      [] name = "yahoo" -> _yahoo_allowed
      [] name = "alpaca" -> /\ kind = "equity"
                            /\ {"alpaca_key_id", "alpaca_secret"} \subseteq apiKeys
      [] name \in {"financial_modeling_prep", "twelve_data", "alpha_vantage"}
           -> name \in apiKeys
      [] OTHER -> FALSE

\* The labels of the available providers of a list, each once, in the
\* order of the list.
RECURSIVE InListOrder(_, _, _)
InListOrder(kind, wished, seen) ==
    IF wished = <<>> THEN <<>>
    ELSE IF ProviderAvailable(kind, Head(wished)) /\ Head(wished) \notin seen
         THEN <<LabelOf(Head(wished))>>
              \o InListOrder(kind, Tail(wished), seen \cup {Head(wished)})
         ELSE InListOrder(kind, Tail(wished), seen)

\* The labels of the names a list holds.
NamedIn(wished) == {LabelOf(wished[i]) : i \in 1..Len(wished)}

\* The chain without the providers a list does not name.
ChainOver(labels) == SelectSeq(fetchers, LAMBDA label : label \in labels)

\* The default order of a quote class.
DefaultOrder(kind) ==
    IF kind = "index" THEN DefaultIndexOrder ELSE DefaultEquityOrder

\* C36: with a preference list the chain of an index or equity quote tries
\* the available providers the list names in the order of the list, each
\* at most once; providers without credentials are skipped; without a list
\* the default order of the quote class is used.
C36_ChainFollowsPreference ==
    (rq_kind # "none" /\ aq_pc # "idle") =>
        LET wished == IF quoteOrder # <<>> THEN quoteOrder
                      ELSE DefaultOrder(rq_kind)
        IN ChainOver(NamedIn(wished)) = InListOrder(rq_kind, wished, {})

\* C36, amended: the chain is the available providers other than Yahoo
\* that the list names, in the order of the list and each once, followed
\* by Yahoo whenever Yahoo is allowed, wherever and whether the list names
\* it; without a list the default order of the quote class takes the
\* place of the list.
C36_ListedThenYahoo ==
    (rq_kind # "none" /\ aq_pc # "idle") =>
        LET wished == IF quoteOrder # <<>> THEN quoteOrder
                      ELSE DefaultOrder(rq_kind)
            keyed == SelectSeq(wished, LAMBDA name : name # "yahoo")
        IN fetchers = InListOrder(rq_kind, keyed, {})
                      \o (IF _yahoo_allowed THEN <<"yahoo">> ELSE <<>>)

\* A list that reverses the default order of two credentialed providers
\* and names Yahoo before a provider that comes to be tried before it.
C36_Witness ==
    /\ rq_kind = "equity"
    /\ aq_pc # "idle"
    /\ quoteOrder = <<"yahoo", "twelve_data">>
    /\ fetchers = <<"twelve_data", "yahoo">>

\* ========================================================================
\* Part 6: The provider requests of _fetch_hk_market_snapshot,
\* _fetch_price_only_quotes and the quote part of
\* _fetch_theme_metrics_from_fmp, next to the resolver's
\* ========================================================================

HK_PROXY_SYMBOLS == <<"2800.HK", "2828.HK">>

\* The theme symbols of the model (two of FMP_THEME_SYMBOLS).
ThemeSymbols == <<"NVDA", "MSFT">>

\* A request to a provider for a symbol, as the log keeps it.
ProviderRequest(provider, symbol) == [provider |-> provider, symbol |-> symbol]

\* A test for Yahoo that looks at YFINANCE_FALLBACK only.
YahooAllowedIgnoringDisable == yfinanceFallback

\* allow_yahoo = _yahoo_allowed(), as the paths of this part read it.
AllowYahoo == _yahoo_allowed

\* _fetch_hk_market_snapshot: Stooq, then Yahoo's ^HSI, then Yahoo's
\* proxies, each only when the one before raised; answered says which
\* requests are answered.
HkRequests(answered) ==
    LET first == <<ProviderRequest("stooq", "^HSI")>>
        second == IF AllowYahoo /\ ~answered["stooq"]
                  THEN <<ProviderRequest("yahoo", "^HSI")>> ELSE <<>>
        direct == answered["stooq"] \/ (AllowYahoo /\ answered["yahoo"])
        third == IF ~direct /\ AllowYahoo
                 THEN <<ProviderRequest("yahoo", HK_PROXY_SYMBOLS[1])>>
                 ELSE <<>>
        fourth == IF ~direct /\ AllowYahoo /\ ~answered["proxy1"]
                  THEN <<ProviderRequest("yahoo", HK_PROXY_SYMBOLS[2])>>
                  ELSE <<>>
    IN [requests |-> first \o second \o third \o fourth,
        ok |-> \/ direct
               \/ AllowYahoo /\ (answered["proxy1"] \/ answered["proxy2"])]

\* One turn of the loop of _fetch_price_only_quotes: Stooq, then Alpaca
\* when both credentials are present, then Yahoo when allowed.
PriceOnlySymbol(symbol, answered) ==
    LET alpaca == {"alpaca_key_id", "alpaca_secret"} \subseteq apiKeys
        second == IF ~answered["stooq"] /\ alpaca
                  THEN <<ProviderRequest("alpaca", symbol)>> ELSE <<>>
        found == answered["stooq"] \/ (alpaca /\ answered["alpaca"])
        third == IF ~found /\ AllowYahoo
                 THEN <<ProviderRequest("yahoo", symbol)>> ELSE <<>>
    IN [requests |-> <<ProviderRequest("stooq", symbol)>> \o second \o third,
        ok |-> found \/ (AllowYahoo /\ answered["yahoo"])]

\* _fetch_price_only_quotes over the symbols; it raises when no symbol
\* got a quote.
RECURSIVE PriceOnlyQuotes(_, _)
PriceOnlyQuotes(symbols, answered) ==
    IF symbols = <<>> THEN [requests |-> <<>>, ok |-> FALSE]
    ELSE LET head == PriceOnlySymbol(Head(symbols), answered[Head(symbols)])
             rest == PriceOnlyQuotes(Tail(symbols), answered)
         IN [requests |-> head.requests \o rest.requests,
             ok |-> head.ok \/ rest.ok]

\* The quote part of _fetch_theme_metrics_from_fmp: the price-only quotes
\* first when PREFER_STOOQ is set or Yahoo is not allowed, Yahoo's quote
\* API first otherwise, and the other one when the first raised.
ThemeQuotes(prefer_stooq_env, answered, yahoo_quotes) ==
    LET prefer_stooq == prefer_stooq_env \/ ~AllowYahoo
        price_only == PriceOnlyQuotes(ThemeSymbols, answered)
        yahoo == <<ProviderRequest("yahoo", "quote")>>
        Quotes(requests, source) ==
            [requests |-> requests, source |-> source,
             ok |-> source # "none"]
    IN IF prefer_stooq
       THEN IF price_only.ok
            THEN Quotes(price_only.requests, "price_only")
            ELSE IF AllowYahoo
                 THEN Quotes(price_only.requests \o yahoo,
                             IF yahoo_quotes THEN "yahoo" ELSE "none")
                 ELSE Quotes(price_only.requests, "none")
       ELSE IF yahoo_quotes
            THEN Quotes(yahoo, "yahoo")
            ELSE Quotes(yahoo \o price_only.requests,
                        IF price_only.ok THEN "price_only" ELSE "none")

\* Which of the requests of one symbol are answered.
SymbolAnswers == [{"stooq", "alpaca", "yahoo"} -> BOOLEAN]

YhHongKong ==
    /\ yh.pc = "idle"
    /\ aq_pc = "idle"
    /\ \E answered \in [{"stooq", "yahoo", "proxy1", "proxy2"} -> BOOLEAN] :
        LET result == HkRequests(answered)
        IN yh' = [pc |-> "done", path |-> "hongkong",
                  requests |-> result.requests, ok |-> result.ok]
    /\ UNCHANGED otherThanYh

YhPriceOnly ==
    /\ yh.pc = "idle"
    /\ aq_pc = "idle"
    /\ \E answered \in [{"NVDA", "MSFT"} -> SymbolAnswers] :
        LET result == PriceOnlyQuotes(ThemeSymbols, answered)
        IN yh' = [pc |-> "done", path |-> "price_only",
                  requests |-> result.requests, ok |-> result.ok]
    /\ UNCHANGED otherThanYh

YhThemeQuotes ==
    /\ yh.pc = "idle"
    /\ aq_pc = "idle"
    /\ \E answered \in [{"NVDA", "MSFT"} -> SymbolAnswers],
          prefer_stooq_env \in BOOLEAN, yahoo_quotes \in BOOLEAN :
        LET result == ThemeQuotes(prefer_stooq_env, answered, yahoo_quotes)
        IN yh' = [pc |-> "done", path |-> "themes",
                  requests |-> result.requests, ok |-> result.ok]
    /\ UNCHANGED otherThanYh

\* The environment of a run: the flags, the credentials, and a preference
\* list that is empty or names Yahoo first.
InitYahoo ==
    /\ InitResolver
    /\ quoteOrder \in {<<>>, <<"yahoo", "stooq">>}

\* One of the paths is taken: a quote through the resolver, or one of the
\* three paths of this part.
ResolverPath == yh.pc = "idle" /\ NextResolver

NextYahoo ==
    \/ ResolverPath
    \/ YhHongKong
    \/ YhPriceOnly
    \/ YhThemeQuotes

SpecYahoo == InitYahoo /\ [][NextYahoo]_vars

\* A request to Yahoo has been made on some path.
YahooRequested ==
    \/ \E i \in 1..Len(yh.requests) : yh.requests[i].provider = "yahoo"
    \/ \E i \in 1..Len(invoked) : invoked[i] = "yahoo"

\* C37: with DISABLE_YAHOO set, Yahoo is in no chain and no request goes
\* to Yahoo on any path: index and equity quotes, the Hong Kong index and
\* its proxies, the theme quotes and the price-only quotes.
C37_DisabledYahooNeverRequested ==
    disableYahoo =>
        /\ ~YahooRequested
        /\ \A i \in 1..Len(fetchers) : fetchers[i] # "yahoo"

\* With the flag set and YFINANCE_FALLBACK on, the Hong Kong path has
\* ended without a quote after Stooq alone was asked.
C37_Witness ==
    /\ disableYahoo
    /\ yfinanceFallback
    /\ yh.pc = "done"
    /\ yh.path = "hongkong"
    /\ ~yh.ok
    /\ yh.requests = <<ProviderRequest("stooq", "^HSI")>>

\* ========================================================================
\* Part 7: The EDGAR ticker mapping of the process, the fundamentals of
\* the theme step and the EDGAR health check
\* ========================================================================

\* The tickers the mapping of the model may hold.
Tickers == {"AAPL", "NVDA", "MSFT"}

\* What the request for the mapping may bring: an exception, or a payload
\* with usable rows for some tickers (none at all included).
MappingPayloads ==
    {[raises |-> TRUE, tickers |-> {}]}
        \cup {[raises |-> FALSE, tickers |-> t] : t \in SUBSET Tickers}

\* A load that asks the network whatever the cache holds.
LoadMappingUncached(cache, payload) ==
    [requested |-> TRUE,
     raised |-> payload.raises \/ payload.tickers = {},
     cache |-> IF payload.raises \/ payload.tickers = {} THEN cache
               ELSE [loaded |-> TRUE, tickers |-> payload.tickers]]

\* _load_edgar_ticker_mapping: the cache when it is set; else one request,
\* and the cache is set only when the request gave a mapping that is not
\* empty.
_load_edgar_ticker_mapping(cache, payload) ==
    IF cache.loaded
    THEN [requested |-> FALSE, raised |-> FALSE, cache |-> cache]
    ELSE [requested |-> TRUE,
          raised |-> payload.raises \/ payload.tickers = {},
          cache |-> IF payload.raises \/ payload.tickers = {} THEN cache
                    ELSE [loaded |-> TRUE, tickers |-> payload.tickers]]

\* What the company facts of a mapped symbol may give: all four fields,
\* some of them, no metrics at all, or an exception.
FactOutcomes == {"complete", "partial", "insufficient", "error"}

ThemeSymbolSet == {ThemeSymbols[i] : i \in 1..Len(ThemeSymbols)}

\* _fetch_edgar_fundamentals once the mapping is there: results, missing
\* and errors.
EdgarFundamentals(mapping, facts) ==
    LET mapped == ThemeSymbolSet \cap mapping
    IN [results |-> {t \in mapped : facts[t] \in {"complete", "partial"}},
        missing |-> ThemeSymbolSet \ mapping,
        errors |-> {t \in mapped : facts[t] \in {"insufficient", "error"}}]

\* needs_fmp: the symbols without metrics or with a required field
\* missing.
NeedsFmpSymbols(results, facts) ==
    {t \in ThemeSymbolSet : t \notin results \/ facts[t] = "partial"}

\* A status that is ok whatever was resolved.
ThemeStatusAlwaysOk(source, fundamentals) == TRUE

\* status_ok of the theme step once quotes are there: always with the
\* price-only quotes, and with Yahoo's quotes only when some symbol has
\* fundamentals.
ThemeStatusOk(source, fundamentals) ==
    IF source = "price_only" THEN TRUE ELSE fundamentals # {}

\* The sources the quote part of the theme step can end with in this
\* environment.
ThemeSources ==
    {ThemeQuotes(prefer_stooq_env, answered, yahoo_quotes).source :
        prefer_stooq_env \in BOOLEAN,
        answered \in [{"NVDA", "MSFT"} -> SymbolAnswers],
        yahoo_quotes \in BOOLEAN}

\* _fetch_theme_metrics_from_fmp: without quotes it returns a failed
\* status before EDGAR is asked.
EdThemesNoQuotes ==
    /\ ed.pc = "start"
    /\ "none" \in ThemeSources
    /\ ed' = [ed EXCEPT !.pc = "themes_done", !.theme_ok = FALSE]
    /\ UNCHANGED otherThanEd

\* _fetch_theme_metrics_from_fmp with quotes, where the load of the
\* mapping raises: the exception is kept as an EDGAR error, and FMP is
\* asked for every symbol when its key is there.
EdThemesLoadRaises ==
    /\ ed.pc = "start"
    /\ \E source \in ThemeSources \ {"none"}, payload \in MappingPayloads :
        LET load == _load_edgar_ticker_mapping(ed.cache, payload)
        IN /\ load.raised
           /\ \E fmp_data \in SUBSET ThemeSymbolSet :
               /\ "financial_modeling_prep" \notin apiKeys => fmp_data = {}
               /\ ed' = [ed EXCEPT
                      !.pc = "themes_done",
                      !.cache = load.cache,
                      !.lookups = @ + 1,
                      !.requests = @ + (IF load.requested THEN 1 ELSE 0),
                      !.source = source,
                      !.errors = {"mapping"},
                      !.fundamentals = fmp_data,
                      !.theme_ok = ThemeStatusOk(source, fmp_data)]
    /\ UNCHANGED otherThanEd

\* _fetch_theme_metrics_from_fmp with quotes and a mapping: each symbol is
\* looked up, the symbols in need are asked of FMP when its key is there,
\* and the status follows.
EdThemes ==
    /\ ed.pc = "start"
    /\ \E source \in ThemeSources \ {"none"}, payload \in MappingPayloads,
          facts \in [ThemeSymbolSet -> FactOutcomes] :
        LET load == _load_edgar_ticker_mapping(ed.cache, payload)
            edgar == EdgarFundamentals(load.cache.tickers, facts)
            needs_fmp == NeedsFmpSymbols(edgar.results, facts)
        IN /\ ~load.raised
           /\ \E fmp_data \in SUBSET needs_fmp :
               /\ "financial_modeling_prep" \notin apiKeys => fmp_data = {}
               /\ ed' = [ed EXCEPT
                      !.pc = "themes_done",
                      !.cache = load.cache,
                      !.lookups = @ + 1,
                      !.requests = @ + (IF load.requested THEN 1 ELSE 0),
                      !.source = source,
                      !.results = edgar.results,
                      !.missing = edgar.missing,
                      !.errors = edgar.errors,
                      !.fundamentals = edgar.results \cup fmp_data,
                      !.theme_ok =
                          ThemeStatusOk(source, edgar.results \cup fmp_data)]
    /\ UNCHANGED otherThanEd

\* _edgar_healthcheck: the mapping, then the company facts of AAPL or of
\* the first identifier; any exception makes the status not ok.
EdHealthcheck ==
    /\ ed.pc = "themes_done"
    /\ \E payload \in MappingPayloads, facts_ok \in BOOLEAN :
        LET load == _load_edgar_ticker_mapping(ed.cache, payload)
        IN ed' = [ed EXCEPT
               !.pc = "done",
               !.cache = load.cache,
               !.lookups = @ + 1,
               !.requests = @ + (IF load.requested THEN 1 ELSE 0),
               !.edgar_ok = ~load.raised /\ facts_ok]
    /\ UNCHANGED otherThanEd

\* The environment of a process: the Yahoo flags and the FMP key.
InitEdgar ==
    /\ PipelineIdle
    /\ LibraryIdle
    /\ quoteOrder = <<>>
    /\ apiKeys \in SUBSET {"financial_modeling_prep", "alpaca_key_id"}
    /\ disableYahoo \in BOOLEAN
    /\ yfinanceFallback \in BOOLEAN
    /\ rq_kind = "none"
    /\ rq_symbol = NoneVal
    /\ fetchers = <<>>
    /\ aq_pc = "idle"
    /\ aq_i = 1
    /\ aq_errors = <<>>
    /\ aq_result = NoSnapshot
    /\ aq_detail = ""
    /\ invoked = <<>>
    /\ outcomes = <<>>

NextEdgar ==
    \/ EdThemesNoQuotes
    \/ EdThemesLoadRaises
    \/ EdThemes
    \/ EdHealthcheck

SpecEdgar == InitEdgar /\ [][NextEdgar]_vars

\* C38 as stated: the mapping is requested from the network at most once
\* in a process.
C38_RequestedAtMostOnce == ed.requests <= 1

\* C38: once a load has given a mapping, no later lookup requests it
\* again and the mapping in memory stays as it is; a load that raised or
\* gave nothing leaves the cache unset, so the next lookup requests it
\* again.
C38_LoadedMappingReused ==
    [][/\ ed.cache.loaded =>
            /\ ed'.requests = ed.requests
            /\ ed'.cache = ed.cache
       /\ (~ed.cache.loaded /\ ed'.lookups > ed.lookups) =>
            ed'.requests = ed.requests + 1]_vars

\* The theme step loaded the mapping, and the health check that followed
\* used it without a second request.
C38_Witness ==
    /\ ed.pc = "done"
    /\ ed.lookups = 2
    /\ ed.requests = 1
    /\ ed.cache.loaded
    /\ ed.edgar_ok
    /\ ed.results # {}

SleepSeconds == {0, 2, 30}

\* The sleeps of one ETL step the model follows.
MaxCliSleeps == 3

\* cli.py imports daily_messenger.etl.run_fetch at its top; the module
\* body computes THROTTLE_DISABLED from the environment as it is then.
ClImport ==
    /\ cl.pc = "import"
    /\ cl' = [cl EXCEPT !.pc = "main", !.THROTTLE_DISABLED = cl.env]
    /\ UNCHANGED otherThanCl

\* main for dm run and dm fetch: the arguments are parsed, the flag sets
\* DM_DISABLE_THROTTLE in os.environ, and run_fetch.run is called in the
\* same process.
ClMain ==
    /\ cl.pc = "main"
    /\ \E command \in {"run", "fetch"}, disable_throttle \in BOOLEAN :
        cl' = [cl EXCEPT !.pc = "etl",
                         !.command = command,
                         !.disable_throttle = disable_throttle,
                         !.env = IF disable_throttle THEN TRUE ELSE @]
    /\ UNCHANGED otherThanCl

\* The ETL step calls _sleep, which reads the module constant.
ClSleep ==
    /\ cl.pc = "etl"
    /\ Len(cl.slept) < MaxCliSleeps
    /\ \E seconds \in SleepSeconds :
        cl' = [cl EXCEPT
               !.slept = Append(@, _sleep(seconds, cl.THROTTLE_DISABLED))]
    /\ UNCHANGED otherThanCl

\* run_fetch.run returns.
ClReturn ==
    /\ cl.pc = "etl"
    /\ cl' = [cl EXCEPT !.pc = "done"]
    /\ UNCHANGED otherThanCl

\* The process starts with or without DM_DISABLE_THROTTLE in its
\* environment.
InitCli ==
    /\ ResolverIdle
    /\ PipelineIdle
    /\ req = ReqIdle /\ fund = FundIdle /\ hist = HistIdle /\ agg = AggIdle
    /\ sr = SrIdle /\ dg = DgIdle /\ cc = CcIdle /\ ef = EfIdle
    /\ yh = YhIdle /\ ed = EdIdle
    /\ cl \in {[ClIdle EXCEPT !.env = e] : e \in BOOLEAN}

NextCli ==
    \/ ClImport
    \/ ClMain
    \/ ClSleep
    \/ ClReturn

SpecCli == InitCli /\ [][NextCli]_vars

\* C40: with --disable-throttle on dm run or dm fetch, every _sleep of the
\* ETL step returns at once.
C40_FlagDisablesSleep ==
    (cl.pc \in {"etl", "done"} /\ cl.disable_throttle) =>
        \A i \in 1..Len(cl.slept) : cl.slept[i] = 0

====
